---- MODULE Spec2Model ----
(***************************************************************************)
(* A model of src/SymbolicRegression.js: the Interaction-Transformation    *)
(* (IT) representation, its operators (build, compose, sanitize, eval,     *)
(* fit, simplify, mutate, copy) and the three searches ITES, ITLS and      *)
(* SYMTREE.                                                                *)
(*                                                                         *)
(* Numbers.  A JavaScript number is modelled by a pair <<n, d>>:           *)
(*   d > 0   the rational n/d in lowest terms,                             *)
(*   <<0,0>> NaN,   <<1,0>> +Infinity,   <<-1,0>> -Infinity.               *)
(* Arithmetic follows IEEE-754 for the non-finite values and is exact on   *)
(* the finite ones (no rounding, no signed zero).  The transcendental      *)
(* functions are tabulated, with short rational approximations, at the     *)
(* arguments -1, 0 and 1, which are the only finite arguments that occur   *)
(* when every dataset entry is -1, 0 or 1.                                 *)
(***************************************************************************)
EXTENDS Integers, Sequences, FiniteSets, TLC

----------------------------------------------------------------------------
(* Numbers *)

NaN == <<0, 0>>
PosInf == <<1, 0>>
NegInf == <<-1, 0>>
Zero == <<0, 1>>
One == <<1, 1>>
\* the value of a property that was never assigned (IT.score before a fit)
undefined == <<0, -1>>

Num(k) == <<k, 1>>

IsNaN(a) == a = NaN \/ a = undefined
IsInf(a) == a = PosInf \/ a = NegInf
isFinite(a) == a[2] > 0

AbsInt(k) == IF k < 0 THEN -k ELSE k
SignInt(k) == IF k < 0 THEN -1 ELSE IF k > 0 THEN 1 ELSE 0

RECURSIVE GCD(_, _)
GCD(a, b) == IF b = 0 THEN a ELSE GCD(b, a % b)

\* n/d in lowest terms with a positive denominator (d # 0)
Norm(n, d) ==
    LET g == GCD(AbsInt(n), AbsInt(d))
        s == IF d < 0 THEN -1 ELSE 1
    IN  <<s * (n \div g), s * (d \div g)>>

Sign(a) == SignInt(a[1])

Neg(a) == IF IsNaN(a) THEN NaN ELSE <<-a[1], a[2]>>

Abs(a) == IF IsNaN(a) THEN NaN ELSE <<AbsInt(a[1]), a[2]>>

Add(a, b) ==
    IF IsNaN(a) \/ IsNaN(b) THEN NaN
    ELSE IF IsInf(a) /\ IsInf(b) THEN (IF a = b THEN a ELSE NaN)
    ELSE IF IsInf(a) THEN a
    ELSE IF IsInf(b) THEN b
    ELSE LET g == GCD(a[2], b[2])
         IN  Norm(a[1] * (b[2] \div g) + b[1] * (a[2] \div g), (a[2] \div g) * b[2])

Sub(a, b) == Add(a, Neg(b))

Mul(a, b) ==
    IF IsNaN(a) \/ IsNaN(b) THEN NaN
    ELSE IF IsInf(a) \/ IsInf(b)
         THEN (IF Sign(a) * Sign(b) = 0 THEN NaN ELSE <<Sign(a) * Sign(b), 0>>)
    ELSE LET g1 == GCD(AbsInt(a[1]), b[2])
             g2 == GCD(AbsInt(b[1]), a[2])
         IN  <<(a[1] \div g1) * (b[1] \div g2), (a[2] \div g2) * (b[2] \div g1)>>

\* a / b; a finite non-zero number over zero is an infinity, 0/0 is NaN
Div(a, b) ==
    IF IsNaN(a) \/ IsNaN(b) THEN NaN
    ELSE IF IsInf(b) THEN (IF IsInf(a) THEN NaN ELSE Zero)
    ELSE IF IsInf(a) THEN <<Sign(a) * (IF Sign(b) < 0 THEN -1 ELSE 1), 0>>
    ELSE IF b[1] = 0 THEN (IF a[1] = 0 THEN NaN ELSE <<Sign(a), 0>>)
    ELSE Mul(a, Norm(b[2], b[1]))

\* a > b; every comparison with NaN (or undefined) is false
Gt(a, b) ==
    IF IsNaN(a) \/ IsNaN(b) THEN FALSE
    ELSE IF a = b THEN FALSE
    ELSE IF a = PosInf \/ b = NegInf THEN TRUE
    ELSE IF a = NegInf \/ b = PosInf THEN FALSE
    ELSE a[1] * b[2] > b[1] * a[2]

Ge(a, b) == IF IsNaN(a) \/ IsNaN(b) THEN FALSE ELSE (a = b \/ Gt(a, b))

Le(a, b) == Ge(b, a)

Lt(a, b) == Gt(b, a)

RECURSIVE IntPow(_, _)
IntPow(b, e) == IF e = 0 THEN 1 ELSE b * IntPow(b, e - 1)

\* Math.pow(x, t) for an integer base x and an integer exponent t
Pow(x, t) ==
    IF t = 0 THEN One
    ELSE IF t > 0 THEN Num(IntPow(x, t))
    ELSE IF x = 0 THEN PosInf
    ELSE Norm(1, IntPow(x, -t))

----------------------------------------------------------------------------
(* Bounds of the model *)

\* how many of the eight library functions, in source order, the model uses
NFuns == 5
\* terms of a model drawn as an operator's input range over 1..MaxTerms
MaxTerms == 4
\* exponent limits (expolim) range over 0..MaxExpolim
MaxExpolim == 0

----------------------------------------------------------------------------
(* The function library: funs, funsKeys *)

AllFunsKeys == <<"sin", "cos", "tan", "abs", "id", "sqrt", "exp", "log">>

funsKeys == SubSeq(AllFunsKeys, 1, NFuns)

FunSet == {funsKeys[k] : k \in 1..Len(funsKeys)}

\* tabulated values at the argument 1 (and, by symmetry, -1)
Sin1 == <<5, 6>>
Cos1 == <<1, 2>>
Tan1 == <<3, 2>>
Exp1 == <<8, 3>>
ExpM1 == <<3, 8>>
\* Math.exp(300), about 1.9e130: a finite number larger than any other in the model
Exp300 == <<1000000, 1>>

\* funs[f](p) for p in {-1, 0, 1, NaN, +Infinity, -Infinity}
ApplyFun(f, p) ==
    CASE f = "sin" ->
            IF ~isFinite(p) THEN NaN
            ELSE IF p = Zero THEN Zero ELSE IF p = One THEN Sin1 ELSE Neg(Sin1)
      [] f = "cos" ->
            IF ~isFinite(p) THEN NaN
            ELSE IF p = Zero THEN One ELSE Cos1
      [] f = "tan" ->
            IF ~isFinite(p) THEN NaN
            ELSE IF p = Zero THEN Zero ELSE IF p = One THEN Tan1 ELSE Neg(Tan1)
      [] f = "abs" -> Abs(p)
      [] f = "id" -> p
      [] f = "sqrt" ->
            IF Lt(p, Zero) THEN Zero
            ELSE p    \* sqrt(0) = 0, sqrt(1) = 1, sqrt(Infinity) = Infinity, sqrt(NaN) = NaN
      [] f = "exp" ->
            IF Ge(p, Num(300)) THEN Exp300
            ELSE IF IsNaN(p) THEN NaN
            ELSE IF p = NegInf THEN Zero
            ELSE IF p = Zero THEN One ELSE IF p = One THEN Exp1 ELSE ExpM1
      [] f = "log" ->
            IF Le(p, Zero) THEN Zero
            ELSE IF p = One THEN Zero
            ELSE p    \* log(Infinity) = Infinity, log(NaN) = NaN

----------------------------------------------------------------------------
(* Sequence helpers: zip, reduce, splice *)

Min(a, b) == IF a < b THEN a ELSE b

\* the index set of zip(a, b): zip stops at the shortest array
ZipDom(a, b) == 1..Min(Len(a), Len(b))

\* seq.splice(index, 1) with a 0-based index; no effect past the end
Splice(seq, index) ==
    IF index + 1 > Len(seq) THEN seq
    ELSE [k \in 1..(Len(seq) - 1) |-> IF k <= index THEN seq[k] ELSE seq[k + 1]]

Reverse(seq) == [k \in 1..Len(seq) |-> seq[Len(seq) + 1 - k]]

\* term.every(t => t == 0)
AllZero(term) == \A v \in 1..Len(term) : term[v] = 0

\* zip(t1, t2).every(([a, b]) => a == b)
SameExponents(t1, t2) == \A v \in ZipDom(t1, t2) : t1[v] = t2[v]

----------------------------------------------------------------------------
(* The IT operators *)

copyIT(IT) ==
    [terms  |-> [k \in 1..Len(IT.terms) |-> [v \in 1..Len(IT.terms[k]) |-> IT.terms[k][v]]],
     funcs  |-> [k \in 1..Len(IT.funcs) |-> IT.funcs[k]],
     coeffs |-> [k \in 1..Len(IT.coeffs) |-> IT.coeffs[k]],
     length |-> IT.length,
     score  |-> IT.score]

\* buildRootIT with every exponent 1 instead of the unit vectors
buildRootOnes(nvars) ==
    [terms  |-> [termIdx \in 1..nvars |-> [tIdx \in 1..nvars |-> 1]],
     funcs  |-> [k \in 1..nvars |-> "id"],
     coeffs |-> [k \in 1..nvars |-> One],
     length |-> nvars,
     score  |-> undefined]

buildRootIT(nvars) ==
    [terms  |-> [termIdx \in 1..nvars |-> [tIdx \in 1..nvars |-> IF termIdx = tIdx THEN 1 ELSE 0]],
     funcs  |-> [k \in 1..nvars |-> "id"],
     coeffs |-> [k \in 1..nvars |-> One],
     length |-> nvars,
     score  |-> undefined]

\* Math.random() takes the values k / RandRes for k in 0..RandRes-1
RandRes == 8

\* (num / den) << 0 for den > 0: the fraction is cut off towards zero
Trunc(num, den) == SignInt(num) * (AbsInt(num) \div den)

\* the values Math.random() * 2 * (expolim+1) - 1 - expolim << 0 can take
ExpoDraws(expolim) ==
    {Trunc(k * 2 * (expolim + 1) - (1 + expolim) * RandRes, RandRes) : k \in 0..(RandRes - 1)}

\* the values funs[funsKeys[funsKeys.length * Math.random() << 0]] can take
FunDraws == {funsKeys[Trunc(Len(funsKeys) * k, RandRes) + 1] : k \in 0..(RandRes - 1)}

\* createTerm without the redraw of an all-zero vector
TermDrawsWithZero(nvars, expolim) == [1..nvars -> ExpoDraws(expolim)]

\* the exponent vectors createTerm can return: all-zero draws are redrawn
TermDraws(nvars, expolim) ==
    {t \in [1..nvars -> ExpoDraws(expolim)] : ~AllZero(t)}

\* the models buildRandIT can return when the function draws fall in drawn
buildRandFrom(nTerms, nvars, expolim, drawn) ==
    {[terms  |-> ts,
      funcs  |-> fs,
      coeffs |-> [k \in 1..nTerms |-> One],
      length |-> nTerms,
      score  |-> undefined] :
        ts \in [1..nTerms -> TermDraws(nvars, expolim)],
        fs \in [1..nTerms -> drawn]}

\* the models buildRandIT(nTerms, nvars, expolim) can return
buildRandIT(nTerms, nvars, expolim) == buildRandFrom(nTerms, nvars, expolim, FunDraws)

\* composeIT without the push onto coeffs
composeNoCoeff(IT, newTerm) ==
    [IT EXCEPT !.terms  = Append(IT.terms, newTerm.term),
               !.funcs  = Append(IT.funcs, newTerm.func),
               !.length = IT.length + 1]

\* newTerm is [term, func] or [term, func, coeff]
composeIT(IT, newTerm) ==
    [IT EXCEPT !.terms  = Append(IT.terms, newTerm.term),
               !.funcs  = Append(IT.funcs, newTerm.func),
               !.coeffs = Append(IT.coeffs,
                                 IF "coeff" \in DOMAIN newTerm THEN newTerm.coeff ELSE One),
               !.length = IT.length + 1]

\* DupPushes with the later occurrence pushed instead of the earlier one
RECURSIVE DupPushesLater(_, _, _)
DupPushesLater(IT, tIndex, i) ==
    IF i >= IT.length THEN <<>>
    ELSE (IF SameExponents(IT.terms[tIndex + 1], IT.terms[i + 1])
             /\ IT.funcs[tIndex + 1] = IT.funcs[i + 1]
          THEN <<i>> ELSE <<>>)
         \o DupPushesLater(IT, tIndex, i + 1)

\* the pushes of the inner loop of sanitizeIT for term tIndex (0-based), from i on
RECURSIVE DupPushes(_, _, _)
DupPushes(IT, tIndex, i) ==
    IF i >= IT.length THEN <<>>
    ELSE (IF SameExponents(IT.terms[tIndex + 1], IT.terms[i + 1])
             /\ IT.funcs[tIndex + 1] = IT.funcs[i + 1]
          THEN <<tIndex>> ELSE <<>>)
         \o DupPushes(IT, tIndex, i + 1)

\* ToRemove stopping at the first index it would push
RECURSIVE ToRemoveOne(_, _)
ToRemoveOne(IT, tIndex) ==
    IF tIndex >= Len(IT.terms) THEN <<>>
    ELSE LET pushes == IF AllZero(IT.terms[tIndex + 1]) THEN <<tIndex>>
                       ELSE DupPushes(IT, tIndex, tIndex + 1)
         IN  IF pushes # <<>> THEN <<Head(pushes)>>
             ELSE ToRemoveOne(IT, tIndex + 1)

\* ToRemove without the push for an all-zero exponent vector
RECURSIVE ToRemoveDuplicates(_, _)
ToRemoveDuplicates(IT, tIndex) ==
    IF tIndex >= Len(IT.terms) THEN <<>>
    ELSE DupPushes(IT, tIndex, tIndex + 1) \o ToRemoveDuplicates(IT, tIndex + 1)

\* toRemove after the forEach over IT.terms, from term tIndex (0-based) on
RECURSIVE ToRemove(_, _)
ToRemove(IT, tIndex) ==
    IF tIndex >= Len(IT.terms) THEN <<>>
    ELSE (IF AllZero(IT.terms[tIndex + 1]) THEN <<tIndex>>
          ELSE DupPushes(IT, tIndex, tIndex + 1))
         \o ToRemove(IT, tIndex + 1)

\* toRemove.reverse().forEach(index => splice each of terms, coeffs, funcs)
RECURSIVE SpliceAll(_, _)
SpliceAll(IT, indexes) ==
    IF indexes = <<>> THEN IT
    ELSE SpliceAll([IT EXCEPT !.terms  = Splice(IT.terms, Head(indexes)),
                              !.coeffs = Splice(IT.coeffs, Head(indexes)),
                              !.funcs  = Splice(IT.funcs, Head(indexes))],
                   Tail(indexes))

\* the argument object of sanitizeIT as the call leaves it (it is changed in place)
sanitizeInPlace(IT) ==
    LET spliced == SpliceAll(IT, Reverse(ToRemove(IT, 0)))
    IN  [spliced EXCEPT !.length = Len(spliced.terms)]

\* the value sanitizeIT returns
sanitizeIT(IT) ==
    LET backup == copyIT(IT)
        after  == sanitizeInPlace(IT)
    IN  IF after.length = 0 THEN backup ELSE after

----------------------------------------------------------------------------
(* Evaluation and fitting *)

\* seq.reduce(sum, 0)
RECURSIVE SumFrom(_, _, _)
SumFrom(acc, seq, k) ==
    IF k > Len(seq) THEN acc ELSE SumFrom(Add(acc, seq[k]), seq, k + 1)

SumSeq(seq) == SumFrom(Zero, seq, 1)

\* zip(X, term).map(([x, t]) => Math.pow(x, t)).reduce(prod, 1)
RECURSIVE ProdPowFrom(_, _, _, _)
ProdPowFrom(acc, X, term, v) ==
    IF v > Min(Len(X), Len(term)) THEN acc
    ELSE ProdPowFrom(Mul(acc, Pow(X[v], term[v])), X, term, v + 1)

ProdPow(X, term) == ProdPowFrom(One, X, term, 1)

\* f(product of the powers): one entry of the design matrix
TermValue(f, term, X) == ApplyFun(f, ProdPow(X, term))

evalIT(IT, X) ==
    LET n == Min(Len(IT.coeffs), Min(Len(IT.funcs), Len(IT.terms)))
    IN  SumSeq([k \in 1..n |-> Mul(IT.coeffs[k], TermValue(IT.funcs[k], IT.terms[k], X))])

\* math.multiply of an (r x k) by a (k x c) matrix, both sequences of rows
MatMul(A, B) ==
    [i \in 1..Len(A) |->
        [j \in 1..Len(B[1]) |->
            SumSeq([k \in 1..Len(B) |-> Mul(A[i][k], B[k][j])])]]

\* math.transpose of a non-empty matrix
Transpose(A) == [j \in 1..Len(A[1]) |-> [i \in 1..Len(A) |-> A[i][j]]]

\* A without row i and column j
Minor(A, i, j) ==
    [r \in 1..(Len(A) - 1) |->
        [c \in 1..(Len(A) - 1) |->
            A[IF r < i THEN r ELSE r + 1][IF c < j THEN c ELSE c + 1]]]

\* the determinant, expanded along the first row
RECURSIVE Det(_)
Det(A) ==
    IF Len(A) = 1 THEN A[1][1]
    ELSE SumSeq([j \in 1..Len(A) |->
                    LET t == Mul(A[1][j], Det(Minor(A, 1, j)))
                    IN  IF j % 2 = 1 THEN t ELSE Neg(t)])

\* math.inv throws "Cannot calculate inverse, determinant is zero"
InvThrows(A) == Det(A) = Zero

\* math.inv(A) when it does not throw: the adjugate over the determinant
Inv(A) ==
    LET d == Det(A)
    IN  [i \in 1..Len(A) |->
            [j \in 1..Len(A) |->
                IF Len(A) = 1 THEN Div(One, d)
                ELSE LET m == Det(Minor(A, j, i))
                     IN  Div(IF (i + j) % 2 = 0 THEN m ELSE Neg(m), d)]]

\* the design matrix XsHat of fitIT: one row per sample, one column per term
DesignMatrix(IT, Xs) ==
    [r \in 1..Len(Xs) |->
        [c \in 1..Min(Len(IT.funcs), Len(IT.terms)) |->
            TermValue(IT.funcs[c], IT.terms[c], Xs[r])]]

\* whether the try block of fitIT ends in the catch clause
FitThrows(IT, Xs) ==
    LET XsHat == DesignMatrix(IT, Xs)
    IN  \/ Min(Len(IT.funcs), Len(IT.terms)) = 0
        \/ InvThrows(MatMul(Transpose(XsHat), XsHat))

\* ws.map(w => w[0]) of the try block of fitIT
FitCoeffs(IT, Xs, ys) ==
    LET XsHat  == DesignMatrix(IT, Xs)
        ysHat  == [r \in 1..Len(ys) |-> <<Num(ys[r])>>]
        XsHatT == Transpose(XsHat)
        q1     == Inv(MatMul(XsHatT, XsHat))
        q2     == MatMul(XsHatT, ysHat)
        ws     == MatMul(q1, q2)
    IN  [k \in 1..Len(ws) |-> ws[k][1]]

\* the mean absolute error of fitIT
MAEof(IT, Xs, ys) ==
    Div(SumSeq([r \in 1..Min(Len(Xs), Len(ys)) |->
                   Abs(Sub(evalIT(IT, Xs[r]), Num(ys[r])))]),
        Num(Len(Xs)))

\* ScoreOf without the isFinite test
ScoreUnchecked(MAE) == Div(One, Add(One, MAE))

\* the score fitIT stores for a mean absolute error
ScoreOf(MAE) ==
    LET score == Div(One, Add(One, MAE))
    IN  IF isFinite(score) THEN score ELSE Zero

\* fitIT with the coefficients reset to 1 in the catch clause
fitResetsCoeffs(IT, Xs, ys) ==
    LET fitted == IF FitThrows(IT, Xs) THEN [IT EXCEPT !.coeffs = [k \in 1..Len(IT.coeffs) |-> One]]
                  ELSE [IT EXCEPT !.coeffs = FitCoeffs(IT, Xs, ys)]
    IN  [fitted EXCEPT !.score = ScoreOf(MAEof(fitted, Xs, ys))]

fitIT(IT, Xs, ys) ==
    LET fitted == IF FitThrows(IT, Xs) THEN IT
                  ELSE [IT EXCEPT !.coeffs = FitCoeffs(IT, Xs, ys)]
    IN  [fitted EXCEPT !.score = ScoreOf(MAEof(fitted, Xs, ys))]

\* array.filter(findCoeffs) of simplifyIT: the kept 1-based positions of an array
RECURSIVE KeptFrom(_, _, _, _)
KeptFrom(IT, arrayLen, threshold, index) ==
    IF index > arrayLen THEN <<>>
    ELSE (IF index <= Len(IT.coeffs) /\ Gt(Abs(IT.coeffs[index]), threshold)
          THEN <<index>> ELSE <<>>)
         \o KeptFrom(IT, arrayLen, threshold, index + 1)

Filtered(IT, array, threshold) ==
    LET kept == KeptFrom(IT, Len(array), threshold, 1)
    IN  [k \in 1..Len(kept) |-> array[kept[k]]]

\* simplifyIT without the test for a pruning that leaves no term
RECURSIVE simplifyToEmpty(_, _, _, _, _)
simplifyToEmpty(IT, Xs, ys, nvars, threshold) ==
    LET newIT == [terms  |-> Filtered(IT, IT.terms, threshold),
                  funcs  |-> Filtered(IT, IT.funcs, threshold),
                  coeffs |-> Filtered(IT, IT.coeffs, threshold),
                  length |-> Len(Filtered(IT, IT.coeffs, threshold)),
                  score  |-> undefined]
    IN  IF newIT.length = IT.length THEN IT
        ELSE IF newIT.length = 0 THEN newIT
        ELSE simplifyToEmpty(fitIT(newIT, Xs, ys), Xs, ys, nvars, threshold)

\* how many times simplifyIT calls fitIT
RECURSIVE simplifyRefits(_, _, _, _, _)
simplifyRefits(IT, Xs, ys, nvars, threshold) ==
    LET newIT == [terms  |-> Filtered(IT, IT.terms, threshold),
                  funcs  |-> Filtered(IT, IT.funcs, threshold),
                  coeffs |-> Filtered(IT, IT.coeffs, threshold),
                  length |-> Len(Filtered(IT, IT.coeffs, threshold)),
                  score  |-> undefined]
    IN  IF newIT.length = 0 THEN 0
        ELSE IF newIT.length = IT.length THEN 0
        ELSE 1 + simplifyRefits(fitIT(newIT, Xs, ys), Xs, ys, nvars, threshold)

RECURSIVE simplifyIT(_, _, _, _, _)
simplifyIT(IT, Xs, ys, nvars, threshold) ==
    LET newIT == [terms  |-> Filtered(IT, IT.terms, threshold),
                  funcs  |-> Filtered(IT, IT.funcs, threshold),
                  coeffs |-> Filtered(IT, IT.coeffs, threshold),
                  length |-> Len(Filtered(IT, IT.coeffs, threshold)),
                  score  |-> undefined]
    IN  IF newIT.length = 0 THEN IT
        ELSE IF newIT.length = IT.length THEN IT
        ELSE simplifyIT(fitIT(newIT, Xs, ys), Xs, ys, nvars, threshold)

\* mutateopIT with its two draws: the term position (0-based) and the function
mutateopIT(IT, pos, f) ==
    [IT EXCEPT !.funcs = [k \in 1..(IF pos + 1 > Len(IT.funcs) THEN pos + 1 ELSE Len(IT.funcs)) |->
                             IF k = pos + 1 THEN f ELSE IT.funcs[k]]]

\* the exponent assignment of mutatetermsIT: positions are 0-based
SetExponent(IT, pos, v, e) ==
    [IT EXCEPT !.terms[pos + 1] =
        [k \in 1..(IF v + 1 > Len(IT.terms[pos + 1]) THEN v + 1 ELSE Len(IT.terms[pos + 1])) |->
            IF k = v + 1 THEN e ELSE IT.terms[pos + 1][k]]]

\* mutatetermsIT without the rebuild of a model that holds an all-zero term
mutateKeepsZero(IT, nvars, expolim, pos, v, e) == {SetExponent(IT, pos, v, e)}

\* the models mutatetermsIT can return for its three draws
mutatetermsIT(IT, nvars, expolim, pos, v, e) ==
    LET changed == SetExponent(IT, pos, v, e)
    IN  IF \E k \in 1..Len(changed.terms) : AllZero(changed.terms[k])
        THEN buildRandIT(IT.length, nvars, expolim)
        ELSE {changed}

----------------------------------------------------------------------------
(* State *)

VARIABLES
    prog,     \* the entry point this run executes
    pc,       \* the position in it
    Xs, ys,   \* the dataset
    op,       \* the operator called last
    steps,    \* how many operator calls were made
    opArg,    \* the other arguments and the random draws of the call
    arg,      \* the model an operator is called with, as it was before the call
    inplace,  \* the same object as the call left it
    ret,      \* the model the call, or the search, returned
    par,      \* the parameters of the search
    pop,      \* ITES, ITLS: the population
    parents,  \* ITES: the parent pool
    newPop,   \* ITES: the next population while it is formed
    best,     \* ITES, ITLS: the variable best
    outer,    \* the position of the outer loop (size, generation, iteration)
    inner,    \* the position of the inner loop
    neighbors,\* ITLS: the neighborhood of the iteration
    heap      \* the objects and arrays of a run that tracks references

opVars == <<op, steps, opArg, arg, inplace>>

searchVars == <<par, pop, parents, newPop, best, outer, inner, neighbors, heap>>

vars == <<prog, pc, Xs, ys, op, steps, opArg, arg, inplace, ret,
          par, pop, parents, newPop, best, outer, inner, neighbors, heap>>

\* no model (a variable of another entry point, or a call not made yet)
NoModel == [terms |-> <<>>, funcs |-> <<>>, coeffs |-> <<>>, length |-> -1, score |-> undefined]

\* the search variables of a run that is no search
NoSearch ==
    /\ par = <<>>
    /\ pop = <<>>
    /\ parents = <<>>
    /\ newPop = <<>>
    /\ best = NoModel
    /\ outer = 0
    /\ inner = 0
    /\ neighbors = <<>>
    /\ heap = <<>>

\* the operator variables of a search
NoCall ==
    /\ op = "none"
    /\ steps = 0
    /\ opArg = <<>>
    /\ arg = NoModel
    /\ inplace = NoModel

----------------------------------------------------------------------------
(* sanitizeIT on its own: every input of up to MaxTerms terms *)

\* the functions the inputs of sanitizeIT are drawn from: the first NSanFuns keys
NSanFuns == 2

SanTerms == [1..2 -> {0, 1}]

\* coefficient k at position k, so that a surviving term tells where it came from
SanInput(ts, fs) ==
    [terms  |-> ts,
     funcs  |-> fs,
     coeffs |-> [k \in 1..Len(ts) |-> Num(k)],
     length |-> Len(ts),
     score  |-> undefined]

InitSan ==
    /\ prog = "sanitize"
    /\ pc = "call"
    /\ Xs = <<>>
    /\ ys = <<>>
    /\ op = "none"
    /\ steps = 0
    /\ opArg = <<>>
    /\ \E n \in 1..MaxTerms :
          \E ts \in [1..n -> SanTerms], fs \in [1..n -> {funsKeys[k] : k \in 1..NSanFuns}] :
              arg = SanInput(ts, fs)
    /\ inplace = NoModel
    /\ ret = NoModel
    /\ NoSearch

SanitizeInput ==
    /\ prog = "sanitize"
    /\ pc = "call"
    /\ ret' = sanitizeIT(arg)
    /\ inplace' = sanitizeInPlace(arg)
    /\ op' = "sanitize"
    /\ steps' = steps + 1
    /\ pc' = "done"
    /\ UNCHANGED <<prog, Xs, ys, opArg, arg, searchVars>>

\* sanitizeIT called on the model the first call returned: arg becomes that
\* model as the caller holds it, ret the value of the second call
SanitizeAgain ==
    /\ prog = "sanitize"
    /\ pc = "done"
    /\ arg' = copyIT(ret)
    /\ ret' = sanitizeIT(ret)
    /\ inplace' = sanitizeInPlace(ret)
    /\ op' = "sanitize"
    /\ steps' = steps + 1
    /\ pc' = "again"
    /\ UNCHANGED <<prog, Xs, ys, opArg, searchVars>>

NextSan == SanitizeInput \/ SanitizeAgain

SpecSan == InitSan /\ [][NextSan]_vars

----------------------------------------------------------------------------
(* buildRootIT on its own: the root is built and evaluated at one input X,  *)
(* held as the only row of Xs; opArg takes the value evalIT returns         *)

\* inputs X have 1..MaxRootVars entries, each in -MaxRootVal..MaxRootVal
MaxRootVars == 2
MaxRootVal == 3

InitRoot ==
    /\ prog = "root"
    /\ pc = "call"
    /\ \E nvars \in 1..MaxRootVars :
          \E X \in [1..nvars -> (-MaxRootVal)..MaxRootVal] : Xs = <<X>>
    /\ ys = <<>>
    /\ ret = NoModel
    /\ NoCall
    /\ NoSearch

EvalRoot ==
    /\ prog = "root"
    /\ pc = "call"
    /\ ret' = buildRootIT(Len(Xs[1]))
    /\ opArg' = evalIT(ret', Xs[1])
    /\ op' = "buildRoot"
    /\ steps' = steps + 1
    /\ pc' = "done"
    /\ UNCHANGED <<prog, Xs, ys, arg, inplace, searchVars>>

NextRoot == EvalRoot

SpecRoot == InitRoot /\ [][NextRoot]_vars

----------------------------------------------------------------------------
(* Properties of sanitizeIT *)

SanDone == prog = "sanitize" /\ pc = "done"

NoZeroTerm(IT) == \A k \in 1..Len(IT.terms) : ~AllZero(IT.terms[k])

SamePair(IT, j, k) == IT.terms[j] = IT.terms[k] /\ IT.funcs[j] = IT.funcs[k]

NoDuplicate(IT) ==
    \A j, k \in 1..Len(IT.terms) : j # k => ~SamePair(IT, j, k)

\* C1: after sanitize, the returned model has no all-zero exponent vector and
\* no repeated (exponent vector, function) pair; only when removing the
\* degenerate and duplicate terms would leave nothing (every term is all-zero)
\* is the input returned as it was.
C1_SanitizeClean ==
    SanDone =>
        IF \A k \in 1..Len(arg.terms) : AllZero(arg.terms[k])
        THEN ret = arg
        ELSE NoZeroTerm(ret) /\ NoDuplicate(ret)

\* the position in arg of the term at position k of ret (coefficients are tags)
Origin(k) == ret.coeffs[k][1]

\* C6 as stated: of several terms with the same pair the first occurrence is
\* kept, with its coefficient, and the survivors keep their relative order.
C6_KeepsFirst ==
    (SanDone /\ inplace.length > 0) =>
        /\ \A k \in 1..Len(ret.terms) :
              /\ ret.terms[k] = arg.terms[Origin(k)]
              /\ ret.funcs[k] = arg.funcs[Origin(k)]
              /\ \A j \in 1..(Origin(k) - 1) : ~SamePair(arg, j, Origin(k))
        /\ \A j, k \in 1..Len(ret.terms) : j < k => Origin(j) < Origin(k)

\* C6 (amended): sanitize removes every occurrence of a pair but the last: a
\* term that survives in the object is the last occurrence of its pair in the
\* input, with its coefficient, and the survivors keep their relative order.
C6_KeepsLast ==
    SanDone =>
        /\ \A k \in 1..Len(inplace.terms) :
              LET o == inplace.coeffs[k][1]
              IN  /\ inplace.terms[k] = arg.terms[o]
                  /\ inplace.funcs[k] = arg.funcs[o]
                  /\ \A j \in (o + 1)..Len(arg.terms) : ~SamePair(arg, o, j)
        /\ \A j, k \in 1..Len(inplace.terms) :
              j < k => inplace.coeffs[j][1] < inplace.coeffs[k][1]
        /\ ret = IF inplace.length = 0 THEN arg ELSE inplace

\* a pair that occurs twice, of which sanitize kept one
C6_Witness ==
    /\ SanDone
    /\ \E j, k \in 1..Len(arg.terms) : j < k /\ SamePair(arg, j, k) /\ ~AllZero(arg.terms[j])
    /\ inplace.length > 0
    /\ Len(ret.terms) < Len(arg.terms)

----------------------------------------------------------------------------
(* Datasets *)

\* y = x^2 on -1, 0, 1: a sample with x = 0 makes negative powers infinite
DataSquare == [Xs |-> << <<-1>>, <<0>>, <<1>> >>, ys |-> <<1, 0, 1>>]
\* y = 1 + 4x on 1, -1: two samples, fitted exactly by two independent terms
DataLine == [Xs |-> << <<1>>, <<-1>> >>, ys |-> <<5, -3>>]
\* y = 0.5 + 3.5x on 1, -1
DataSkew == [Xs |-> << <<1>>, <<-1>> >>, ys |-> <<4, -3>>]
\* two different targets at x = 1: no model fits it exactly
DataNoisy == [Xs |-> << <<1>>, <<-1>>, <<1>> >>, ys |-> <<3, -1, 1>>]
\* three samples that three independent terms fit exactly
DataCurve == [Xs |-> << <<-1>>, <<0>>, <<1>> >>, ys |-> <<0, -1, 2>>]
\* y = x0 * x1 over two variables
DataProduct == [Xs |-> << <<1, 0>>, <<0, 1>>, <<1, 1>>, <<-1, 1>> >>, ys |-> <<0, 0, 1, -1>>]

nvarsOf(data) == Len(data[1])

----------------------------------------------------------------------------
(* Candidate terms of SYMTREE for one leaf at iteration i *)

TermSum(t1, t2) == [v \in ZipDom(t1, t2) |-> t1[v] + t2[v]]

TermDiff(t1, t2) == [v \in ZipDom(t1, t2) |-> t1[v] - t2[v]]

\* the pushes of the loop over k (0-based, from k on) for term j
RECURSIVE PairPushes(_, _, _, _, _)
PairPushes(leaf, i, minI, j, k) ==
    IF k >= leaf.length THEN <<>>
    ELSE <<[term |-> TermSum(leaf.terms[j + 1], leaf.terms[k + 1]), func |-> "id"]>>
         \o (IF i >= minI
             THEN <<[term |-> TermDiff(leaf.terms[j + 1], leaf.terms[k + 1]), func |-> "id"]>>
             ELSE <<>>)
         \o PairPushes(leaf, i, minI, j, k + 1)

\* the pushes of the loop over funsKeys (1-based, from k on) for term j
RECURSIVE SwapPushes(_, _, _)
SwapPushes(leaf, j, k) ==
    IF k > Len(funsKeys) THEN <<>>
    ELSE (IF funsKeys[k] # leaf.funcs[j + 1]
          THEN <<[term |-> leaf.terms[j + 1], func |-> funsKeys[k]]>>
          ELSE <<>>)
         \o SwapPushes(leaf, j, k + 1)

\* toExpand after the loop over j (0-based, from j on)
RECURSIVE toExpandFrom(_, _, _, _, _)
toExpandFrom(leaf, i, minI, minT, j) ==
    IF j >= leaf.length THEN <<>>
    ELSE PairPushes(leaf, i, minI, j, j)
         \o (IF i >= minT THEN SwapPushes(leaf, j, 1) ELSE <<>>)
         \o toExpandFrom(leaf, i, minI, minT, j + 1)

\* toExpand with the tests i > minI and i > minT
toExpandLate(leaf, i, minI, minT) == toExpandFrom(leaf, i, minI + 1, minT + 1, 0)

\* toExpand with differences and swaps from the first iteration on
toExpandAlways(leaf, i, minI, minT) == toExpandFrom(leaf, i, 0, 0, 0)

toExpandOf(leaf, i, minI, minT) == toExpandFrom(leaf, i, minI, minT, 0)

Range(seq) == {seq[k] : k \in 1..Len(seq)}

----------------------------------------------------------------------------
(* The operators on their own, called in the orders the searches call them: *)
(* build, sanitize, fit, then copy, mutate or compose, sanitize, fit, ...,  *)
(* and simplify on a fitted model.                                          *)

\* at most MaxOpSteps operator calls follow the build
MaxOpSteps == 7
\* models are built with 1..MaxBuildTerms terms
MaxBuildTerms == 2

OpsDatasets == {DataSquare, DataLine}

\* thresholds of simplifyIT: those of the searches (0.005, 0.05) and a large one
Thresholds == {<<1, 200>>, <<1, 20>>, <<1, 1>>}

InitOps ==
    /\ prog = "ops"
    /\ pc = "done"
    /\ \E data \in OpsDatasets :
          /\ Xs = data.Xs
          /\ ys = data.ys
          /\ \/ /\ op = "buildRand"
                /\ \E nTerms \in 1..MaxBuildTerms, expolim \in 0..MaxExpolim :
                      /\ ret \in buildRandIT(nTerms, nvarsOf(data.Xs), expolim)
                      /\ opArg = <<nTerms, nvarsOf(data.Xs), expolim>>
             \/ /\ op = "buildRoot"
                /\ ret = buildRootIT(nvarsOf(data.Xs))
                /\ opArg = <<nvarsOf(data.Xs)>>
    /\ steps = 0
    /\ arg = NoModel
    /\ inplace = NoModel
    /\ NoSearch

\* the model returned last is the argument of a call of operator name
Calling(name, after) ==
    /\ prog = "ops"
    /\ steps < MaxOpSteps
    /\ op \in after
    /\ arg' = ret
    /\ op' = name
    /\ steps' = steps + 1
    /\ UNCHANGED <<prog, pc, Xs, ys, searchVars>>

CallSanitize ==
    /\ Calling("sanitize", {"buildRand", "mutateop", "mutateterms", "compose"})
    /\ opArg' = <<>>
    /\ ret' = sanitizeIT(ret)
    /\ inplace' = sanitizeInPlace(ret)

CallFit ==
    /\ Calling("fit", {"buildRoot", "sanitize"})
    /\ opArg' = <<>>
    /\ ret' = fitIT(ret, Xs, ys)
    /\ inplace' = ret'

CallSimplify ==
    /\ Calling("simplify", {"fit"})
    /\ \E threshold \in Thresholds :
          /\ ret' = simplifyIT(ret, Xs, ys, nvarsOf(Xs), threshold)
          /\ opArg' = threshold
    /\ inplace' = ret

CallCopy ==
    /\ Calling("copy", {"fit"})
    /\ opArg' = <<>>
    /\ ret' = copyIT(ret)
    /\ inplace' = ret

CallCompose ==
    /\ Calling("compose", {"copy"})
    /\ \E newTerm \in Range(toExpandOf(ret, 0, 0, 0)) :
          /\ ret' = composeIT(ret, newTerm)
          /\ opArg' = newTerm
    /\ inplace' = ret'

CallMutateOp ==
    /\ Calling("mutateop", {"copy"})
    /\ \E pos \in 0..(ret.length - 1), f \in FunSet :
          /\ ret' = mutateopIT(ret, pos, f)
          /\ opArg' = <<pos, f>>
    /\ inplace' = ret'

CallMutateTerms ==
    /\ Calling("mutateterms", {"copy"})
    /\ \E expolim \in 0..MaxExpolim, pos \in 0..(ret.length - 1), v \in 0..(nvarsOf(Xs) - 1) :
          \E e \in ExpoDraws(expolim) :
              /\ ret' \in mutatetermsIT(ret, nvarsOf(Xs), expolim, pos, v, e)
              /\ opArg' = <<expolim, pos, v, e>>
              /\ inplace' = SetExponent(ret, pos, v, e)

NextOps ==
    \/ CallSanitize
    \/ CallFit
    \/ CallSimplify
    \/ CallCopy
    \/ CallCompose
    \/ CallMutateOp
    \/ CallMutateTerms

SpecOps == InitOps /\ [][NextOps]_vars

----------------------------------------------------------------------------
(* ITES and ITLS: the initial population *)

\* generations (ITES) and iterations (ITLS, SYMTREE) range over 0..MaxBudget
MaxBudget == 2

\* range(start, stop) for start <= stop
range(start, stop) ==
    IF stop - start <= 0 THEN <<start>>
    ELSE [i \in 1..(stop - start) |-> start + i - 1]

\* Math.round(num / den) for num >= 0, den > 0
Round(num, den) == (2 * num + den) \div (2 * den)

bestScore(bestExp, currentExp) ==
    IF Gt(currentExp.score, bestExp.score) THEN currentExp ELSE bestExp

RECURSIVE ReduceFrom(_, _, _)
ReduceFrom(acc, seq, i) ==
    IF i > Len(seq) THEN acc ELSE ReduceFrom(bestScore(acc, seq[i]), seq, i + 1)

\* seq.reduce(bestScore) of a non-empty array
reduceBest(seq) == ReduceFrom(seq[1], seq, 2)

\* the default stopScore, 0.99
StopScore == <<99, 100>>
\* the threshold of the final simplifyIT, 0.005
FinalThreshold == <<1, 200>>

\* the arguments of a search call; drawFuns bounds the functions the random
\* source yields while the initial population is built
SearchPar(p, funSet, b) ==
    [popSize |-> p[1], selectedSize |-> p[2], minSize |-> p[3], maxSize |-> p[4],
     expolim |-> MaxExpolim, budget |-> b, stopScore |-> StopScore, drawFuns |-> funSet]

\* the sizes the population is built over, and the individuals built per size
Sizes == range(par.minSize, par.maxSize + 1)

PerSize == Round(par.popSize, par.maxSize - par.minSize + 1)

Budgets == range(0, par.budget)

InitSearch(name, scenarios) ==
    /\ prog = name
    /\ pc = "build"
    /\ \E sc \in scenarios : Xs = sc.data.Xs /\ ys = sc.data.ys /\ par = sc.par
    /\ pop = <<>>
    /\ parents = <<>>
    /\ newPop = <<>>
    /\ best = NoModel
    /\ outer = 1
    /\ inner = 0
    /\ neighbors = <<>>
    /\ heap = <<>>
    /\ ret = NoModel
    /\ NoCall

\* one callback of Array.from: fitIT(sanitizeIT(buildRandIT(expSize, nvars, expolim)))
BuildIndividual ==
    /\ prog \in {"ITES", "ITLS"}
    /\ pc = "build"
    /\ PerSize > 0
    /\ outer <= Len(Sizes)
    /\ \E m \in buildRandFrom(Sizes[outer], nvarsOf(Xs), par.expolim, par.drawFuns) :
          pop' = Append(pop, fitIT(sanitizeIT(m), Xs, ys))
    /\ IF inner + 1 = PerSize
       THEN outer' = outer + 1 /\ inner' = 0
       ELSE outer' = outer /\ inner' = inner + 1
    /\ UNCHANGED <<prog, pc, Xs, ys, opVars, ret, heap, par, parents, newPop, best, neighbors>>

\* let best = pop.reduce(bestScore): a TypeError on an empty population
PopulationBuilt ==
    /\ prog \in {"ITES", "ITLS"}
    /\ pc = "build"
    /\ PerSize = 0 \/ outer > Len(Sizes)
    /\ IF pop = <<>>
       THEN pc' = "error" /\ best' = best
       ELSE /\ best' = reduceBest(pop)
            /\ pc' = IF prog = "ITES" THEN "select" ELSE "neighbors"
    /\ outer' = 1
    /\ inner' = 0
    /\ UNCHANGED <<prog, Xs, ys, opVars, ret, heap, par, pop, parents, newPop, neighbors>>

\* return simplifyIT(best, Xs, ys, nvars, 0.005)
ReturnBest ==
    /\ prog \in {"ITES", "ITLS"}
    /\ pc = "simplify"
    /\ ret' = simplifyIT(best, Xs, ys, nvarsOf(Xs), FinalThreshold)
    /\ pc' = "done"
    /\ UNCHANGED <<prog, Xs, ys, opVars, searchVars>>

----------------------------------------------------------------------------
(* ITES: one generation *)

ESScenarios ==
    {[data |-> DataNoisy, par |-> SearchPar(<<2, 2, 1, 1>>, {"sin", "id"}, MaxBudget)]}
    \cup {[data |-> DataLine, par |-> SearchPar(<<1, 1, 1, 2>>, {"sin", "id"}, b)] :
        b \in {0, MaxBudget}}
    \cup {[data |-> DataLine, par |-> SearchPar(<<1, 1, 1, 3>>, FunSet, 0)]}
    \cup {[data |-> DataLine, par |-> SearchPar(<<1, 1, 2, 2>>, {"cos", "id"}, b)] :
        b \in {0, MaxBudget}}

InitES == InitSearch("ITES", ESScenarios)

\* a tournament that keeps the lower score
TournamentLower(exp1, exp2) == IF Gt(exp1.score, exp2.score) THEN exp2 ELSE exp1

\* the tournament of two: exp1.score > exp2.score ? exp1 : exp2
Tournament(exp1, exp2) == IF Gt(exp1.score, exp2.score) THEN exp1 ELSE exp2

\* exp1 and exp2 of the tournament that ran last are held in neighbors
Select ==
    /\ prog = "ITES"
    /\ pc = "select"
    /\ \E i1, i2 \in 1..Len(pop) :
          /\ neighbors' = <<pop[i1], pop[i2]>>
          /\ parents' = Append(parents, copyIT(Tournament(pop[i1], pop[i2])))
    /\ IF inner + 1 = par.selectedSize
       THEN pc' = "mutate" /\ inner' = 0
       ELSE pc' = pc /\ inner' = inner + 1
    /\ UNCHANGED <<prog, Xs, ys, opVars, ret, heap, par, pop, newPop, best, outer>>

Mutated(m) ==
    /\ parents' = [parents EXCEPT ![inner + 1] = fitIT(sanitizeIT(m), Xs, ys)]
    /\ IF inner + 1 = Len(parents)
       THEN pc' = "offspring" /\ inner' = 0
       ELSE pc' = pc /\ inner' = inner + 1
    /\ neighbors' = <<>>
    /\ UNCHANGED <<prog, Xs, ys, opVars, ret, heap, par, pop, newPop, best, outer>>

MutateOp ==
    /\ prog = "ITES"
    /\ pc = "mutate"
    /\ \E pos \in 0..(parents[inner + 1].length - 1), f \in FunSet :
          Mutated(mutateopIT(parents[inner + 1], pos, f))

MutateTerms ==
    /\ prog = "ITES"
    /\ pc = "mutate"
    /\ \E pos \in 0..(parents[inner + 1].length - 1), v \in 0..(nvarsOf(Xs) - 1) :
          \E e \in ExpoDraws(par.expolim) :
              \E m \in mutatetermsIT(parents[inner + 1], nvarsOf(Xs), par.expolim, pos, v, e) :
                  Mutated(m)

Offspring ==
    /\ prog = "ITES"
    /\ pc = "offspring"
    /\ \E i1, i2 \in 1..Len(parents) :
          /\ neighbors' = <<parents[i1], parents[i2]>>
          /\ newPop' = Append(newPop, copyIT(Tournament(parents[i1], parents[i2])))
    /\ IF inner + 1 = par.popSize
       THEN pc' = "endgen" /\ inner' = 0
       ELSE pc' = pc /\ inner' = inner + 1
    /\ UNCHANGED <<prog, Xs, ys, opVars, ret, heap, par, pop, parents, best, outer>>

\* pop = the offspring; best = pop.reduce(bestScore); return best.score >= stopScore
EndGeneration ==
    /\ prog = "ITES"
    /\ pc = "endgen"
    /\ pop' = newPop
    /\ best' = reduceBest(newPop)
    /\ newPop' = <<>>
    /\ parents' = <<>>
    /\ IF Ge(best'.score, par.stopScore) \/ outer = Len(Budgets)
       THEN pc' = "simplify" /\ outer' = outer
       ELSE pc' = "select" /\ outer' = outer + 1
    /\ neighbors' = <<>>
    /\ UNCHANGED <<prog, Xs, ys, opVars, ret, heap, par, inner>>

NextES ==
    \/ BuildIndividual
    \/ PopulationBuilt
    \/ Select
    \/ MutateOp
    \/ MutateTerms
    \/ Offspring
    \/ EndGeneration
    \/ ReturnBest

SpecES == InitES /\ [][NextES]_vars

----------------------------------------------------------------------------
(* ITLS: one iteration *)

LSScenarios ==
    {[data |-> d, par |-> SearchPar(<<2, 0, 1, 1>>, FunSet, b)] :
        d \in {DataLine, DataNoisy}, b \in {0, MaxBudget}}
    \cup {[data |-> DataLine, par |-> SearchPar(<<1, 0, 5, 5>>, {"sin", "id"}, b)] :
        b \in {0, MaxBudget}}
    \cup {[data |-> DataLine, par |-> SearchPar(<<1, 0, 1, 3>>, FunSet, 0)]}
    \cup {[data |-> DataSkew, par |-> SearchPar(<<1, 0, 5, 5>>, {"sin"}, MaxBudget)]}

InitLS == InitSearch("ITLS", LSScenarios)

\* the increments of a neighbor's exponent
Increments == <<-1, 0, 1>>

\* the neighbor of the innermost callback: positions are 0-based
Neighbor(IT, termIdx, opIdx, tIdx, tIncrement) ==
    LET neighbor == copyIT(IT)
    IN  [neighbor EXCEPT !.terms[termIdx + 1][tIdx + 1] = @ + tIncrement,
                         !.funcs[termIdx + 1] = funsKeys[opIdx + 1]]

\* the neighbors before filter(Boolean), in the order flat(4) gives them
Candidates(IT, nvars) ==
    LET nInc == Len(Increments)
        nOps == Len(funsKeys)
    IN  [c \in 1..(IT.length * nOps * nvars * nInc) |->
            LET termIdx == (c - 1) \div (nOps * nvars * nInc)
                opIdx   == ((c - 1) \div (nvars * nInc)) % nOps
                tIdx    == ((c - 1) \div nInc) % nvars
                inc     == Increments[((c - 1) % nInc) + 1]
            IN  [neighbor |-> Neighbor(IT, termIdx, opIdx, tIdx, inc), termIdx |-> termIdx]]

Kept(candidate) == ~AllZero(candidate.neighbor.terms[candidate.termIdx + 1])

NeighborsOf(IT, nvars) ==
    LET kept == SelectSeq(Candidates(IT, nvars), Kept)
    IN  [c \in 1..Len(kept) |-> kept[c].neighbor]

\* the loop over the iterations goes on, or ends
NextIteration ==
    IF outer = Len(Budgets)
    THEN pc' = "simplify" /\ outer' = outer
    ELSE pc' = "neighbors" /\ outer' = outer + 1

StartIteration ==
    /\ prog = "ITLS"
    /\ pc = "neighbors"
    /\ neighbors' = NeighborsOf(best, nvarsOf(Xs))
    /\ inner' = 0
    /\ IF neighbors' = <<>> THEN NextIteration ELSE pc' = "scan" /\ outer' = outer
    /\ UNCHANGED <<prog, Xs, ys, opVars, ret, heap, par, pop, parents, newPop, best>>

\* fitIT(sanitizeIT(neigh), Xs, ys).score > best.score
Adopts(fitted, current) == Gt(fitted.score, current.score)

\* the object neigh after fitIT(sanitizeIT(neigh), Xs, ys): the fitted model,
\* unless sanitizeIT emptied neigh and fitted the backup it returned instead
NeighAfterFit(neigh) ==
    IF sanitizeInPlace(neigh).length = 0
    THEN sanitizeInPlace(neigh)
    ELSE fitIT(sanitizeIT(neigh), Xs, ys)

\* a scan that goes on whatever the score of the best is
ScanNeverEnds(current, stopScore) == FALSE

\* return best.score >= stopScore, the value that ends the scan and the iterations
ScanEnds(current, stopScore) == Ge(current.score, stopScore)

\* the scan taken from the last neighbor backwards
NeighborFromEnd(list, k) == list[Len(list) - k]

\* neighbors.some(...) visits the elements by increasing index; k is 0-based
NeighborAt(list, k) == list[k + 1]

ScanNeighbor ==
    /\ prog = "ITLS"
    /\ pc = "scan"
    /\ LET neigh  == NeighborAt(neighbors, inner)
           fitted == fitIT(sanitizeIT(neigh), Xs, ys)
       IN  best' = IF Adopts(fitted, best) THEN NeighAfterFit(neigh) ELSE best
    /\ IF ScanEnds(best', par.stopScore)
       THEN pc' = "simplify" /\ outer' = outer /\ inner' = inner
       ELSE IF inner + 1 = Len(neighbors)
            THEN NextIteration /\ inner' = 0
            ELSE pc' = pc /\ outer' = outer /\ inner' = inner + 1
    /\ UNCHANGED <<prog, Xs, ys, opVars, ret, heap, par, pop, parents, newPop, neighbors>>

NextLS ==
    \/ BuildIndividual
    \/ PopulationBuilt
    \/ StartIteration
    \/ ScanNeighbor
    \/ ReturnBest

SpecLS == InitLS /\ [][NextLS]_vars

----------------------------------------------------------------------------
(* SYMTREE: leaves are held in pop, the nodes of the iteration in newPop,   *)
(* the children of the leaf being expanded in parents, toExpand in          *)
(* neighbors                                                                *)

TreeDatasets == {DataSquare, DataLine, DataNoisy, DataCurve, DataProduct}

\* the threshold of test_SYMTREE, 0.05, and a large one
TreeThresholds == {<<1, 20>>, <<1, 1>>}

TreeScenarios ==
    {[data |-> d,
      par  |-> [budget |-> b, threshold |-> th, minI |-> mI, minT |-> mT,
                stopScore |-> StopScore]] :
        d \in TreeDatasets, th \in TreeThresholds, mI \in 0..1, mT \in 0..1,
        b \in {0, MaxBudget}}

\* let best = fitIT(buildRootIT(nvars), Xs, ys); let leaves = [best]
InitTREE ==
    /\ prog = "SYMTREE"
    /\ pc = "expand"
    /\ \E sc \in TreeScenarios : Xs = sc.data.Xs /\ ys = sc.data.ys /\ par = sc.par
    /\ best = fitIT(buildRootIT(nvarsOf(Xs)), Xs, ys)
    /\ pop = <<best>>
    /\ parents = <<>>
    /\ newPop = <<>>
    /\ outer = 1
    /\ inner = 0
    /\ neighbors = <<>>
    /\ heap = <<>>
    /\ ret = NoModel
    /\ NoCall

\* fitIT(sanitizeIT(composeIT(copyIT(IT), term)), Xs, ys)
Attempt(IT, term) == fitIT(sanitizeIT(composeIT(copyIT(IT), term)), Xs, ys)

\* toExpand without its first filter
NotFiltered(leaf, toExpand) == toExpand

\* the first filter of toExpand: the terms that improve the leaf
Improving(leaf, toExpand) ==
    LET improves(term) == Gt(Attempt(leaf, term).score, leaf.score)
    IN  SelectSeq(toExpand, improves)

\* one pass of the greedy filter from term k on: the running best and the terms kept
RECURSIVE GreedyFrom(_, _, _, _)
GreedyFrom(greedyBest, toExpand, k, kept) ==
    IF k > Len(toExpand) THEN [greedyBest |-> greedyBest, toExpand |-> kept]
    ELSE LET attempt == Attempt(greedyBest, toExpand[k])
         IN  IF Gt(attempt.score, greedyBest.score)
             THEN GreedyFrom(copyIT(attempt), toExpand, k + 1, kept)
             ELSE GreedyFrom(greedyBest, toExpand, k + 1, Append(kept, toExpand[k]))

\* the leaf under expansion and the iteration i
Leaf == pop[inner + 1]

Iteration == Budgets[outer]

\* toExpand of a leaf, after the first filter
StartLeaf ==
    /\ prog = "SYMTREE"
    /\ pc = "expand"
    /\ neighbors' = Improving(Leaf, toExpandOf(Leaf, Iteration, par.minI, par.minT))
    /\ parents' = <<>>
    /\ pc' = "greedy"
    /\ UNCHANGED <<prog, Xs, ys, opVars, ret, heap, par, pop, newPop, best, outer, inner>>

\* one round of the while loop: a greedy pass, then the child is simplified
GreedyChild ==
    /\ prog = "SYMTREE"
    /\ pc = "greedy"
    /\ neighbors # <<>>
    /\ LET pass == GreedyFrom(Leaf, neighbors, 1, <<>>)
       IN  /\ neighbors' = pass.toExpand
           /\ parents' = Append(parents,
                  simplifyIT(pass.greedyBest, Xs, ys, nvarsOf(Xs), par.threshold))
    /\ UNCHANGED <<prog, pc, Xs, ys, opVars, ret, heap, par, pop, newPop, best, outer, inner>>

\* return children, also when it is empty
EndLeafChildrenOnly ==
    /\ prog = "SYMTREE"
    /\ pc = "greedy"
    /\ neighbors = <<>>
    /\ newPop' = newPop \o parents
    /\ parents' = <<>>
    /\ IF inner + 1 = Len(pop)
       THEN pc' = "enditer" /\ inner' = 0
       ELSE pc' = "expand" /\ inner' = inner + 1
    /\ UNCHANGED <<prog, Xs, ys, opVars, ret, heap, par, pop, best, outer, neighbors>>

\* return children.length > 0 ? children : [leaf]
EndLeaf ==
    /\ prog = "SYMTREE"
    /\ pc = "greedy"
    /\ neighbors = <<>>
    /\ newPop' = newPop \o (IF Len(parents) > 0 THEN parents ELSE <<Leaf>>)
    /\ parents' = <<>>
    /\ IF inner + 1 = Len(pop)
       THEN pc' = "enditer" /\ inner' = 0
       ELSE pc' = "expand" /\ inner' = inner + 1
    /\ UNCHANGED <<prog, Xs, ys, opVars, ret, heap, par, pop, best, outer, neighbors>>

\* leaves = nodes.flat(); return leaves.reduce(bestScore).score >= stopScore
EndIteration ==
    /\ prog = "SYMTREE"
    /\ pc = "enditer"
    /\ pop' = newPop
    /\ newPop' = <<>>
    /\ IF Ge(reduceBest(pop').score, par.stopScore) \/ outer = Len(Budgets)
       THEN pc' = "simplify" /\ outer' = outer
       ELSE pc' = "expand" /\ outer' = outer + 1
    /\ UNCHANGED <<prog, Xs, ys, opVars, ret, heap, par, parents, best, inner, neighbors>>

\* return simplifyIT(leaves.reduce(bestScore), Xs, ys, nvars, 0.005)
ReturnTree ==
    /\ prog = "SYMTREE"
    /\ pc = "simplify"
    /\ ret' = simplifyIT(reduceBest(pop), Xs, ys, nvarsOf(Xs), FinalThreshold)
    /\ pc' = "done"
    /\ UNCHANGED <<prog, Xs, ys, opVars, searchVars>>

NextTREE ==
    \/ StartLeaf
    \/ GreedyChild
    \/ EndLeaf
    \/ EndIteration
    \/ ReturnTree

SpecTREE == InitTREE /\ [][NextTREE]_vars

----------------------------------------------------------------------------
(* Objects and arrays by reference: a heap is a sequence of cells and an     *)
(* address is a position in it. A model is a cell with the addresses of its  *)
(* arrays terms, funcs and coeffs and the values of length and score; an     *)
(* array is a cell with its elements, and the elements of a terms array are  *)
(* the addresses of the exponent vectors.                                    *)

Cell(elems) == [elems |-> elems]

\* Then(value), with value computed once before Then uses it
Strict(value, Then(_)) == CHOOSE result \in {Then(v) : v \in {value}} : TRUE

\* the value of the model at address a
Deref(h, a) ==
    LET obj == h[a]
    IN  [terms  |-> [k \in 1..Len(h[obj.terms].elems) |-> h[h[obj.terms].elems[k]].elems],
         funcs  |-> h[obj.funcs].elems,
         coeffs |-> h[obj.coeffs].elems,
         length |-> obj.length,
         score  |-> obj.score]

\* the addresses of the arrays of the model at a: terms, its vectors, funcs, coeffs
ArraysOf(h, a) ==
    {h[a].terms, h[a].funcs, h[a].coeffs}
        \cup {h[h[a].terms].elems[k] : k \in 1..Len(h[h[a].terms].elems)}

\* an object literal whose arrays are all new: the heap after it and its address
NewModel(h, IT) ==
    LET n      == Len(h)
        nTerms == Len(IT.terms)
    IN  [h  |-> h \o [k \in 1..nTerms |-> Cell(IT.terms[k])]
                  \o << Cell([k \in 1..nTerms |-> n + k]),
                        Cell(IT.funcs),
                        Cell(IT.coeffs),
                        [terms |-> n + nTerms + 1, funcs |-> n + nTerms + 2,
                         coeffs |-> n + nTerms + 3,
                         length |-> IT.length, score |-> IT.score] >>,
         at |-> n + nTerms + 4]

\* a copy with terms: IT.terms.slice(), which shares the exponent vectors
HcopyShallow(h, a) ==
    LET n == Len(h)
    IN  [h  |-> h \o << Cell(h[h[a].terms].elems),
                        Cell(h[h[a].funcs].elems),
                        Cell(h[h[a].coeffs].elems),
                        [terms |-> n + 1, funcs |-> n + 2, coeffs |-> n + 3,
                         length |-> h[a].length, score |-> h[a].score] >>,
         at |-> n + 4]

\* copyIT: terms.map(term => term.slice()), funcs.slice(), coeffs.slice()
HcopyIT(h, a) == NewModel(h, copyIT(Deref(h, a)))

\* array[k] = val, k 1-based and within the array
WriteElem(h, array, k, val) == [h EXCEPT ![array].elems[k] = val]

\* IT.terms[pos][v] = e (0-based)
HSetExponent(h, a, pos, v, e) == WriteElem(h, h[h[a].terms].elems[pos + 1], v + 1, e)

\* mutateopIT: IT.funcs[pos] = f, and IT is returned
HmutateopIT(h, a, pos, f) == [h |-> WriteElem(h, h[a].funcs, pos + 1, f), at |-> a]

\* mutatetermsIT: IT changed in place and returned, or a new random model
HmutatetermsIT(h, a, nvars, expolim, pos, v, e, drawn) ==
    LET h1      == HSetExponent(h, a, pos, v, e)
        changed == Deref(h1, a)
    IN  IF \E k \in 1..Len(changed.terms) : AllZero(changed.terms[k])
        THEN {NewModel(h1, m) : m \in buildRandFrom(changed.length, nvars, expolim, drawn)}
        ELSE {[h |-> h1, at |-> a]}

\* composeIT: the pushes on the arrays of IT, with newTerm.term.slice()
HcomposeIT(h, a, newTerm) ==
    LET n  == Len(h)
        h1 == Append(h, Cell(newTerm.term))
    IN  [h  |-> [h1 EXCEPT ![h[a].terms].elems = Append(@, n + 1),
                           ![h[a].funcs].elems = Append(@, newTerm.func),
                           ![h[a].coeffs].elems =
                               Append(@, IF "coeff" \in DOMAIN newTerm
                                         THEN newTerm.coeff ELSE One),
                           ![a].length = @ + 1],
         at |-> a]

\* sanitizeIT: backup = copyIT(IT), the splices on the arrays of IT, and the
\* address returned
HsanitizeIT(h, a) ==
    LET indexes == Reverse(ToRemove(Deref(h, a), 0))
        Spliced(backup) ==
            Strict(SpliceAll([terms  |-> h[h[a].terms].elems,
                              coeffs |-> h[h[a].coeffs].elems,
                              funcs  |-> h[h[a].funcs].elems], indexes),
                   LAMBDA spliced :
                       [h  |-> [backup.h EXCEPT ![h[a].terms].elems = spliced.terms,
                                                ![h[a].coeffs].elems = spliced.coeffs,
                                                ![h[a].funcs].elems = spliced.funcs,
                                                ![a].length = Len(spliced.terms)],
                        at |-> IF Len(spliced.terms) = 0 THEN backup.at ELSE a])
    IN  Strict(HcopyIT(h, a), Spliced)

\* fitIT: IT.coeffs = ws.map(...) is a new array, unless the try block threw;
\* IT.score is assigned
HfitIT(h, a) ==
    LET FitAssigned(IT, fitted) ==
            IF FitThrows(IT, Xs)
            THEN [h |-> [h EXCEPT ![a].score = fitted.score], at |-> a]
            ELSE [h  |-> [Append(h, Cell(fitted.coeffs))
                             EXCEPT ![a].coeffs = Len(h) + 1, ![a].score = fitted.score],
                  at |-> a]
    IN  Strict(Deref(h, a),
               LAMBDA IT : Strict(fitIT(IT, Xs, ys), LAMBDA fitted : FitAssigned(IT, fitted)))

\* simplifyIT: newIT has new arrays, and its terms array holds the exponent
\* vectors of IT themselves; a newIT that is not used is not kept on the heap
RECURSIVE HsimplifyIT(_, _, _)
HsimplifyIT(h, a, threshold) ==
    LET n == Len(h)
        Pruned(IT) ==
            LET newIT == [terms |-> n + 1, funcs |-> n + 2, coeffs |-> n + 3,
                          length |-> Len(Filtered(IT, IT.coeffs, threshold)),
                          score |-> undefined]
                h1    == h \o << Cell(Filtered(IT, h[h[a].terms].elems, threshold)),
                                 Cell(Filtered(IT, IT.funcs, threshold)),
                                 Cell(Filtered(IT, IT.coeffs, threshold)),
                                 newIT >>
            IN  IF newIT.length = 0 \/ newIT.length = IT.length THEN [h |-> h, at |-> a]
                ELSE Strict(HfitIT(h1, n + 4),
                            LAMBDA fitted : HsimplifyIT(fitted.h, fitted.at, threshold))
    IN  Strict(Deref(h, a), Pruned)

----------------------------------------------------------------------------
(* copyIT on its own: a model is copied, then one assignment is made to the  *)
(* original or to the copy. opArg holds the two addresses, inner the one     *)
(* that is assigned to (1 the original, 2 the copy).                         *)

\* the models copied have 1..MaxCopyTerms terms over MaxCopyVars variables
MaxCopyTerms == 2
MaxCopyVars == 2

CopyInputs ==
    {[terms |-> ts, funcs |-> fs, coeffs |-> [k \in 1..Len(ts) |-> Num(k)],
      length |-> Len(ts), score |-> sc] :
        ts \in UNION {[1..n -> [1..MaxCopyVars -> {0, 1}]] : n \in 1..MaxCopyTerms},
        fs \in UNION {[1..n -> {"sin", "id"}] : n \in 1..MaxCopyTerms},
        sc \in {undefined, <<1, 2>>}}

InitCopy ==
    /\ prog = "copy"
    /\ pc = "call"
    /\ Xs = <<>>
    /\ ys = <<>>
    /\ ret = NoModel
    /\ NoCall
    /\ par = <<>>
    /\ pop = <<>>
    /\ parents = <<>>
    /\ newPop = <<>>
    /\ best = NoModel
    /\ outer = 0
    /\ inner = 0
    /\ neighbors = <<>>
    /\ \E IT \in CopyInputs :
          /\ Len(IT.funcs) = Len(IT.terms)
          /\ heap = NewModel(<<>>, IT).h

\* let copy = copyIT(IT)
CopyCall ==
    /\ prog = "copy"
    /\ pc = "call"
    /\ LET copy == HcopyIT(heap, Len(heap))
       IN  /\ heap' = copy.h
           /\ opArg' = <<Len(heap), copy.at>>
    /\ op' = "copy"
    /\ pc' = "copied"
    /\ UNCHANGED <<prog, Xs, ys, steps, arg, inplace, ret,
                   par, pop, parents, newPop, best, outer, inner, neighbors>>

\* an assignment to the original or to the copy was made
Assigned(name, which) ==
    /\ prog = "copy"
    /\ pc = "copied"
    /\ op' = name
    /\ inner' = which
    /\ pc' = "assigned"
    /\ UNCHANGED <<prog, Xs, ys, steps, opArg, arg, inplace, ret,
                   par, pop, parents, newPop, best, outer, neighbors>>

\* IT.terms[k][v] = e
AssignExponent ==
    \E which \in 1..2 :
        /\ Assigned("exponent", which)
        /\ \E k \in 0..(Len(Deref(heap, opArg[which]).terms) - 1),
              v \in 0..(MaxCopyVars - 1), e \in {-1, 2} :
                 heap' = HSetExponent(heap, opArg[which], k, v, e)

\* IT.funcs[k] = f
AssignFunction ==
    \E which \in 1..2 :
        /\ Assigned("function", which)
        /\ \E k \in 1..Len(Deref(heap, opArg[which]).funcs), f \in {"cos"} :
              heap' = WriteElem(heap, heap[opArg[which]].funcs, k, f)

\* IT.coeffs[k] = c
AssignCoefficient ==
    \E which \in 1..2 :
        /\ Assigned("coefficient", which)
        /\ \E k \in 1..Len(Deref(heap, opArg[which]).coeffs) :
              heap' = WriteElem(heap, heap[opArg[which]].coeffs, k, Num(7))

\* IT.length = n
AssignLength ==
    \E which \in 1..2 :
        /\ Assigned("length", which)
        /\ heap' = [heap EXCEPT ![opArg[which]].length = 0]

\* IT.score = s
AssignScore ==
    \E which \in 1..2 :
        /\ Assigned("score", which)
        /\ heap' = [heap EXCEPT ![opArg[which]].score = <<1, 3>>]

NextCopy ==
    \/ CopyCall
    \/ AssignExponent
    \/ AssignFunction
    \/ AssignCoefficient
    \/ AssignLength
    \/ AssignScore

SpecCopy == InitCopy /\ [][NextCopy]_vars

----------------------------------------------------------------------------
(* The searches by reference: pop, parents, newPop and the neighbors of ITLS *)
(* hold addresses, best is an address, and every operator acts on the heap.  *)
(* prog is "refITES", "refITLS" or "refSYMTREE".                             *)

RefScenarios ==
    {[name |-> "refITES", data |-> DataNoisy,
      par |-> SearchPar(<<2, 2, 1, 1>>, {"sin", "id"}, 1)],
     [name |-> "refITES", data |-> DataLine,
      par |-> SearchPar(<<1, 2, 2, 2>>, {"cos", "id"}, 1)],
     [name |-> "refITLS", data |-> DataSkew,
      par |-> SearchPar(<<1, 0, 5, 5>>, {"sin"}, 1)],
     [name |-> "refITLS", data |-> DataLine,
      par |-> SearchPar(<<2, 0, 1, 1>>, {"sin", "id"}, MaxBudget)]}
    \cup {[name |-> "refSYMTREE", data |-> d,
           par |-> [budget |-> MaxBudget, threshold |-> th, minI |-> 0, minT |-> mT,
                    stopScore |-> StopScore]] :
             d \in {DataCurve, DataLine}, th \in TreeThresholds, mT \in 0..1}

InitRefs ==
    /\ \E sc \in RefScenarios :
          prog = sc.name /\ Xs = sc.data.Xs /\ ys = sc.data.ys /\ par = sc.par
    /\ pc = "build"
    /\ pop = <<>>
    /\ parents = <<>>
    /\ newPop = <<>>
    /\ best = 0
    /\ outer = 1
    /\ inner = 0
    /\ neighbors = <<>>
    /\ heap = <<>>
    /\ ret = NoModel
    /\ NoCall

\* fitIT(sanitizeIT(IT)) on the model at a
HfitSanitized(h, a) ==
    Strict(HsanitizeIT(h, a), LAMBDA sanitized : HfitIT(sanitized.h, sanitized.at))

\* seq.reduce(bestScore) over the models at the addresses of seq
RECURSIVE RefReduceFrom(_, _, _, _)
RefReduceFrom(h, acc, seq, i) ==
    IF i > Len(seq) THEN acc
    ELSE RefReduceFrom(h, IF Gt(h[seq[i]].score, h[acc].score) THEN seq[i] ELSE acc,
                       seq, i + 1)

RefBest(h, seq) == RefReduceFrom(h, seq[1], seq, 2)

RefBuildIndividual ==
    /\ prog \in {"refITES", "refITLS"}
    /\ pc = "build"
    /\ outer <= Len(Sizes)
    /\ \E m \in buildRandFrom(Sizes[outer], nvarsOf(Xs), par.expolim, par.drawFuns) :
          \E built \in {NewModel(heap, [m EXCEPT !.score = undefined])} :
              \E fitted \in {HfitSanitized(built.h, built.at)} :
                  /\ heap' = fitted.h
                  /\ pop' = Append(pop, fitted.at)
    /\ IF inner + 1 = PerSize
       THEN outer' = outer + 1 /\ inner' = 0
       ELSE outer' = outer /\ inner' = inner + 1
    /\ UNCHANGED <<prog, pc, Xs, ys, opVars, ret, par, parents, newPop, best, neighbors>>

RefPopulationBuilt ==
    /\ prog \in {"refITES", "refITLS"}
    /\ pc = "build"
    /\ outer > Len(Sizes)
    /\ best' = RefBest(heap, pop)
    /\ pc' = IF prog = "refITES" THEN "select" ELSE "neighbors"
    /\ outer' = 1
    /\ inner' = 0
    /\ UNCHANGED <<prog, Xs, ys, opVars, ret, heap, par, pop, parents, newPop, neighbors>>

\* the loop over the generations or iterations goes on, or ends
RefNextPass(again) ==
    IF outer = Len(Budgets)
    THEN pc' = "simplify" /\ outer' = outer
    ELSE pc' = again /\ outer' = outer + 1

\* return simplifyIT(best, Xs, ys, nvars, 0.005)
RefReturnBest ==
    /\ prog \in {"refITES", "refITLS"}
    /\ pc = "simplify"
    /\ \E simplified \in {HsimplifyIT(heap, best, FinalThreshold)} :
           /\ heap' = simplified.h
           /\ ret' = Deref(simplified.h, simplified.at)
    /\ pc' = "done"
    /\ UNCHANGED <<prog, Xs, ys, opVars, par, pop, parents, newPop, best, outer, inner,
                   neighbors>>

\* a tournament that returns the winner itself, not a copy of it
RefTournamentShared(h, exp1, exp2) ==
    [h |-> h, at |-> IF Gt(h[exp1].score, h[exp2].score) THEN exp1 ELSE exp2]

\* copyIT(exp1.score > exp2.score ? exp1 : exp2) of two addresses
RefTournament(h, exp1, exp2) ==
    HcopyIT(h, IF Gt(h[exp1].score, h[exp2].score) THEN exp1 ELSE exp2)

RefSelect ==
    /\ prog = "refITES"
    /\ pc = "select"
    /\ \E i1, i2 \in 1..Len(pop) :
          \E copy \in {RefTournament(heap, pop[i1], pop[i2])} :
              /\ heap' = copy.h
              /\ parents' = Append(parents, copy.at)
    /\ IF inner + 1 = par.selectedSize
       THEN pc' = "mutate" /\ inner' = 0
       ELSE pc' = pc /\ inner' = inner + 1
    /\ UNCHANGED <<prog, Xs, ys, opVars, ret, par, pop, newPop, best, outer, neighbors>>

\* parents[index] = fitIT(sanitizeIT(the mutated model))
RefMutated(mutated) ==
    /\ \E fitted \in {HfitSanitized(mutated.h, mutated.at)} :
           /\ heap' = fitted.h
           /\ parents' = [parents EXCEPT ![inner + 1] = fitted.at]
    /\ IF inner + 1 = Len(parents)
       THEN pc' = "offspring" /\ inner' = 0
       ELSE pc' = pc /\ inner' = inner + 1
    /\ UNCHANGED <<prog, Xs, ys, opVars, ret, par, pop, newPop, best, outer, neighbors>>

RefMutateOp ==
    /\ prog = "refITES"
    /\ pc = "mutate"
    /\ \E pos \in 0..(heap[parents[inner + 1]].length - 1), f \in par.drawFuns :
          \E mutated \in {HmutateopIT(heap, parents[inner + 1], pos, f)} :
              RefMutated(mutated)

RefMutateTerms ==
    /\ prog = "refITES"
    /\ pc = "mutate"
    /\ \E pos \in 0..(heap[parents[inner + 1]].length - 1), v \in 0..(nvarsOf(Xs) - 1) :
          \E e \in ExpoDraws(par.expolim) :
              \E mutated \in HmutatetermsIT(heap, parents[inner + 1], nvarsOf(Xs),
                                           par.expolim, pos, v, e, par.drawFuns) :
                  RefMutated(mutated)

RefOffspring ==
    /\ prog = "refITES"
    /\ pc = "offspring"
    /\ \E i1, i2 \in 1..Len(parents) :
          \E copy \in {RefTournament(heap, parents[i1], parents[i2])} :
              /\ heap' = copy.h
              /\ newPop' = Append(newPop, copy.at)
    /\ IF inner + 1 = par.popSize
       THEN pc' = "endgen" /\ inner' = 0
       ELSE pc' = pc /\ inner' = inner + 1
    /\ UNCHANGED <<prog, Xs, ys, opVars, ret, par, pop, parents, best, outer, neighbors>>

RefEndGeneration ==
    /\ prog = "refITES"
    /\ pc = "endgen"
    /\ pop' = newPop
    /\ best' = RefBest(heap, newPop)
    /\ newPop' = <<>>
    /\ parents' = <<>>
    /\ IF Ge(heap[best'].score, par.stopScore)
       THEN pc' = "simplify" /\ outer' = outer
       ELSE RefNextPass("select")
    /\ UNCHANGED <<prog, Xs, ys, opVars, ret, heap, par, inner, neighbors>>

\* the candidates of an iteration: one per term, function, variable and increment
NCandidates == heap[best].length * Len(funsKeys) * nvarsOf(Xs) * Len(Increments)

\* one innermost callback of Array.from: the copy of best, its exponent and
\* its function assigned; it is kept unless the changed term is all-zero.
\* inner counts the callbacks made.
RefBuildNeighbor ==
    /\ prog = "refITLS"
    /\ pc = "neighbors"
    /\ inner < NCandidates
    /\ LET nInc     == Len(Increments)
           nOps     == Len(funsKeys)
           nvars    == nvarsOf(Xs)
           termIdx  == inner \div (nOps * nvars * nInc)
           opIdx    == (inner \div (nvars * nInc)) % nOps
           tIdx     == (inner \div nInc) % nvars
           inc      == Increments[(inner % nInc) + 1]
           neighbor == HcopyIT(heap, best)
           vector   == neighbor.h[neighbor.h[neighbor.at].terms].elems[termIdx + 1]
           h1       == HSetExponent(neighbor.h, neighbor.at, termIdx, tIdx,
                                    neighbor.h[vector].elems[tIdx + 1] + inc)
       IN  /\ heap' = WriteElem(h1, h1[neighbor.at].funcs, termIdx + 1, funsKeys[opIdx + 1])
           /\ neighbors' = IF AllZero(heap'[vector].elems) THEN neighbors
                           ELSE Append(neighbors, neighbor.at)
    /\ inner' = inner + 1
    /\ UNCHANGED <<prog, pc, Xs, ys, opVars, ret, par, pop, parents, newPop, best, outer>>

\* neighbors.some(...) starts; on an empty array it returns false at once
RefStartScan ==
    /\ prog = "refITLS"
    /\ pc = "neighbors"
    /\ inner = NCandidates
    /\ inner' = 0
    /\ IF neighbors = <<>> THEN RefNextPass("neighbors") ELSE pc' = "scan" /\ outer' = outer
    /\ UNCHANGED <<prog, Xs, ys, opVars, ret, heap, par, pop, parents, newPop, best, neighbors>>

\* best = fitIT(sanitizeIT(neigh), Xs, ys).score > best.score ? neigh : best
RefScanNeighbor ==
    /\ prog = "refITLS"
    /\ pc = "scan"
    /\ \E fitted \in {HfitSanitized(heap, neighbors[inner + 1])} :
           /\ heap' = fitted.h
           /\ best' = IF Gt(fitted.h[fitted.at].score, fitted.h[best].score)
                      THEN neighbors[inner + 1] ELSE best
    /\ IF Ge(heap'[best'].score, par.stopScore)
       THEN pc' = "simplify" /\ outer' = outer /\ inner' = inner /\ neighbors' = neighbors
       ELSE IF inner + 1 = Len(neighbors)
            THEN RefNextPass("neighbors") /\ inner' = 0 /\ neighbors' = <<>>
            ELSE pc' = pc /\ outer' = outer /\ inner' = inner + 1 /\ neighbors' = neighbors
    /\ UNCHANGED <<prog, Xs, ys, opVars, ret, par, pop, parents, newPop>>

\* let best = fitIT(buildRootIT(nvars), Xs, ys); let leaves = [best]
RefRoot ==
    /\ prog = "refSYMTREE"
    /\ pc = "build"
    /\ \E built \in {NewModel(heap, buildRootIT(nvarsOf(Xs)))} :
           \E fitted \in {HfitIT(built.h, built.at)} :
               /\ heap' = fitted.h
               /\ best' = fitted.at
               /\ pop' = <<fitted.at>>
    /\ pc' = "expand"
    /\ UNCHANGED <<prog, Xs, ys, opVars, ret, par, parents, newPop, outer, inner, neighbors>>

\* fitIT(sanitizeIT(composeIT(copyIT(IT), term)), Xs, ys) on the model at a
RefAttempt(h, a, term) ==
    Strict(HcopyIT(h, a),
           LAMBDA copy :
               Strict(HcomposeIT(copy.h, copy.at, term),
                      LAMBDA composed : HfitSanitized(composed.h, composed.at)))

\* the position of a filter of toExpand: the term k its callback is called
\* with next, the terms kept so far, and greedyBest
FilterAt(leaf) == [k |-> 1, kept |-> <<>>, greedyBest |-> leaf]

\* the leaf under expansion
RefLeaf == pop[inner + 1]

\* toExpand of the leaf is built; opArg is the position of the filter
RefStartLeaf ==
    /\ prog = "refSYMTREE"
    /\ pc = "expand"
    /\ neighbors' = toExpandOf(Deref(heap, RefLeaf), Budgets[outer], par.minI, par.minT)
    /\ opArg' = FilterAt(RefLeaf)
    /\ parents' = <<>>
    /\ pc' = "filter"
    /\ UNCHANGED <<prog, Xs, ys, op, steps, arg, inplace, ret, heap, par, pop, newPop, best,
                   outer, inner>>

\* one callback of the first filter: attempt.score > leaf.score
RefFilterTerm ==
    /\ prog = "refSYMTREE"
    /\ pc = "filter"
    /\ opArg.k <= Len(neighbors)
    /\ \E attempt \in {RefAttempt(heap, RefLeaf, neighbors[opArg.k])} :
           /\ heap' = attempt.h
           /\ opArg' = [opArg EXCEPT !.k = @ + 1,
                                     !.kept = IF Gt(attempt.h[attempt.at].score,
                                                    attempt.h[RefLeaf].score)
                                              THEN Append(@, neighbors[opArg.k]) ELSE @]
    /\ UNCHANGED <<prog, pc, Xs, ys, op, steps, arg, inplace, ret, par, pop, parents, newPop,
                   best, outer, inner, neighbors>>

\* a filter has returned: toExpand is what it kept, and greedyBest = leaf again
RefFiltered ==
    /\ prog = "refSYMTREE"
    /\ pc = "filter"
    /\ opArg.k > Len(neighbors)
    /\ neighbors' = opArg.kept
    /\ opArg' = FilterAt(RefLeaf)
    /\ pc' = "greedy"
    /\ UNCHANGED <<prog, Xs, ys, op, steps, arg, inplace, ret, heap, par, pop, parents, newPop,
                   best, outer, inner>>

\* one callback of the greedy filter: an improving attempt is copied into
\* greedyBest and its term dropped
RefGreedyTerm ==
    /\ prog = "refSYMTREE"
    /\ pc = "greedy"
    /\ opArg.k <= Len(neighbors)
    /\ \E attempt \in {RefAttempt(heap, opArg.greedyBest, neighbors[opArg.k])} :
           IF Gt(attempt.h[attempt.at].score, attempt.h[opArg.greedyBest].score)
           THEN \E copy \in {HcopyIT(attempt.h, attempt.at)} :
                    /\ heap' = copy.h
                    /\ opArg' = [opArg EXCEPT !.k = @ + 1, !.greedyBest = copy.at]
           ELSE /\ heap' = attempt.h
                /\ opArg' = [opArg EXCEPT !.k = @ + 1,
                                          !.kept = Append(@, neighbors[opArg.k])]
    /\ UNCHANGED <<prog, pc, Xs, ys, op, steps, arg, inplace, ret, par, pop, parents, newPop,
                   best, outer, inner, neighbors>>

\* the end of a round of the while loop: the child is simplified and pushed
RefGreedyChild ==
    /\ prog = "refSYMTREE"
    /\ pc = "greedy"
    /\ neighbors # <<>>
    /\ opArg.k > Len(neighbors)
    /\ \E child \in {HsimplifyIT(heap, opArg.greedyBest, par.threshold)} :
           /\ heap' = child.h
           /\ parents' = Append(parents, child.at)
    /\ neighbors' = opArg.kept
    /\ opArg' = FilterAt(RefLeaf)
    /\ UNCHANGED <<prog, pc, Xs, ys, op, steps, arg, inplace, ret, par, pop, newPop, best,
                   outer, inner>>

\* return children.length > 0 ? children : [leaf]
RefEndLeaf ==
    /\ prog = "refSYMTREE"
    /\ pc = "greedy"
    /\ neighbors = <<>>
    /\ newPop' = newPop \o (IF Len(parents) > 0 THEN parents ELSE <<RefLeaf>>)
    /\ parents' = <<>>
    /\ opArg' = <<>>
    /\ IF inner + 1 = Len(pop)
       THEN pc' = "enditer" /\ inner' = 0
       ELSE pc' = "expand" /\ inner' = inner + 1
    /\ UNCHANGED <<prog, Xs, ys, op, steps, arg, inplace, ret, heap, par, pop, best, outer,
                   neighbors>>

RefEndIteration ==
    /\ prog = "refSYMTREE"
    /\ pc = "enditer"
    /\ pop' = newPop
    /\ newPop' = <<>>
    /\ IF Ge(heap[RefBest(heap, newPop)].score, par.stopScore)
       THEN pc' = "simplify" /\ outer' = outer
       ELSE RefNextPass("expand")
    /\ UNCHANGED <<prog, Xs, ys, opVars, ret, heap, par, parents, best, inner, neighbors>>

\* return simplifyIT(leaves.reduce(bestScore), Xs, ys, nvars, 0.005)
RefReturnTree ==
    /\ prog = "refSYMTREE"
    /\ pc = "simplify"
    /\ \E simplified \in {HsimplifyIT(heap, RefBest(heap, pop), FinalThreshold)} :
           /\ heap' = simplified.h
           /\ ret' = Deref(simplified.h, simplified.at)
    /\ pc' = "done"
    /\ UNCHANGED <<prog, Xs, ys, opVars, par, pop, parents, newPop, best, outer, inner,
                   neighbors>>

NextRefs ==
    \/ RefBuildIndividual
    \/ RefPopulationBuilt
    \/ RefReturnBest
    \/ RefSelect
    \/ RefMutateOp
    \/ RefMutateTerms
    \/ RefOffspring
    \/ RefEndGeneration
    \/ RefBuildNeighbor
    \/ RefStartScan
    \/ RefScanNeighbor
    \/ RefRoot
    \/ RefStartLeaf
    \/ RefFilterTerm
    \/ RefFiltered
    \/ RefGreedyTerm
    \/ RefGreedyChild
    \/ RefEndLeaf
    \/ RefEndIteration
    \/ RefReturnTree

SpecRefs == InitRefs /\ [][NextRefs]_vars

----------------------------------------------------------------------------
(* Properties of fitIT and simplifyIT *)

\* the state after a call of the operator: arg is its argument, ret its result
After(name) == prog = "ops" /\ op = name

\* column c of the design matrix
Column(IT, c) == [r \in 1..Len(Xs) |-> TermValue(IT.funcs[c], IT.terms[c], Xs[r])]

Proportional(u, w) ==
    \A r, q \in 1..Len(u) : Mul(u[r], w[q]) = Mul(u[q], w[r])

\* the normal equations have no unique solution: more terms than samples, or
\* two columns of a finite design matrix that are multiples of each other
RankDeficient(IT) ==
    /\ \A c \in 1..IT.length : \A r \in 1..Len(Xs) : isFinite(Column(IT, c)[r])
    /\ \/ IT.length > Len(Xs)
       \/ \E j, k \in 1..IT.length : j # k /\ Proportional(Column(IT, j), Column(IT, k))
       \/ \E j \in 1..IT.length : \A r \in 1..Len(Xs) : Column(IT, j)[r] = Zero

C10_ScoreRange ==
    After("fit") =>
        LET MAE == MAEof(ret, Xs, ys)
        IN  /\ ret.score # undefined
            /\ Ge(ret.score, Zero)
            /\ Le(ret.score, One)
            /\ IF isFinite(MAE)
               THEN Ge(MAE, Zero) /\ ret.score = Div(One, Add(One, MAE))
               ELSE ret.score = Zero

\* a fit whose mean absolute error is not finite
C10_Witness ==
    /\ After("fit")
    /\ ~isFinite(MAEof(ret, Xs, ys))
    /\ ret.score = Zero

\* C7: simplify never returns a model without terms.
C7_SimplifyNonEmpty ==
    After("simplify") => (ret.length >= 1 /\ Len(ret.terms) >= 1)

\* simplify pruned a term, re-fitted, and then found every coefficient at or
\* below the threshold
C7_Witness ==
    /\ After("simplify")
    /\ ret.length < arg.length
    /\ ret.length >= 1
    /\ \A k \in 1..ret.length : ~Gt(Abs(ret.coeffs[k]), opArg)

----------------------------------------------------------------------------
(* Every entry point: the operators on their own and the three searches *)

InitAll == InitSan \/ InitOps \/ InitES \/ InitLS \/ InitTREE

NextAll ==
    \/ SanitizeInput
    \/ CallSanitize
    \/ CallFit
    \/ CallSimplify
    \/ CallCopy
    \/ CallCompose
    \/ CallMutateOp
    \/ CallMutateTerms
    \/ BuildIndividual
    \/ PopulationBuilt
    \/ Select
    \/ MutateOp
    \/ MutateTerms
    \/ Offspring
    \/ EndGeneration
    \/ StartIteration
    \/ ScanNeighbor
    \/ ReturnBest
    \/ StartLeaf
    \/ GreedyChild
    \/ EndLeaf
    \/ EndIteration
    \/ ReturnTree

SpecAll == InitAll /\ [][NextAll]_vars

----------------------------------------------------------------------------
(* Properties of the searches *)

\* C2: in ITES the score of the tracked best never decreases from one
\* generation to the next
C2_BestNeverRegresses ==
    [][prog = "ITES" /\ pc = "endgen" => Ge(best'.score, best.score)]_vars

C4_BestOnlyImproves ==
    [][prog = "ITLS" /\ pc = "scan"
          => /\ Ge(best'.score, best.score)
             /\ best' # best
                   => Gt(fitIT(sanitizeIT(neighbors[inner + 1]), Xs, ys).score,
                         best.score)]_vars

WellFormed(IT) ==
    /\ Len(IT.terms) = IT.length
    /\ Len(IT.funcs) = IT.length
    /\ Len(IT.coeffs) = IT.length

\* the models an operator took or returned and the models a search holds
HeldModels ==
    ({arg, ret, inplace, best}
        \cup Range(pop) \cup Range(newPop) \cup Range(parents)
        \cup (IF prog = "ITLS" THEN Range(neighbors) ELSE {}))
    \ {NoModel}

\* C5: every model returned by an operator and every model held by a search
\* has as many terms as funcs as coeffs as its length says; the operators are
\* given the models the searches give them
C5_WellFormed == \A IT \in HeldModels : WellFormed(IT)

\* sanitizeIT has removed terms of a model and composeIT has added one to another
C5_Witness ==
    \/ op = "sanitize" /\ WellFormed(arg) /\ ret.length > 0 /\ ret.length < arg.length
    \/ op = "compose" /\ WellFormed(arg) /\ ret.length = arg.length + 1

\* C8: ITES and ITLS never abort: the initial population is not empty and a
\* best individual exists before the first generation or iteration
C8_NeverAborts == prog \in {"ITES", "ITLS"} => pc # "error"

----------------------------------------------------------------------------
(* Properties of mutatetermsIT, copyIT, buildRandIT and buildRootIT *)

\* the draws of the last call of mutatetermsIT: opArg = <<expolim, pos, v, e>>
MutPos == opArg[2] + 1

MutVar == opArg[3] + 1

\* the result is a model buildRandIT(nTerms, nvars, expolim) can return
FreshRandom(IT, nTerms, nvars, expolim) ==
    /\ IT.length = nTerms
    /\ Len(IT.terms) = nTerms
    /\ Len(IT.funcs) = nTerms
    /\ IT.coeffs = [k \in 1..nTerms |-> One]
    /\ \A k \in 1..nTerms :
          /\ Len(IT.terms[k]) = nvars
          /\ \A i \in 1..nvars : IT.terms[k][i] \in (-expolim - 1)..expolim
          /\ ~AllZero(IT.terms[k])
          /\ IT.funcs[k] \in Range(AllFunsKeys)

\* C11: the model mutatetermsIT returns holds no all-zero exponent vector; if
\* the replaced exponent makes a term all-zero the result is a freshly built
\* random model with as many terms as the input, otherwise it is the input
\* with one exponent entry replaced and funcs, coeffs and length unchanged
C11_MutateTermsNoZero ==
    After("mutateterms") =>
        /\ \A k \in 1..Len(ret.terms) : ~AllZero(ret.terms[k])
        /\ IF \E k \in 1..Len(inplace.terms) : AllZero(inplace.terms[k])
           THEN FreshRandom(ret, arg.length, nvarsOf(Xs), opArg[1])
           ELSE /\ ret.funcs = arg.funcs
                /\ ret.coeffs = arg.coeffs
                /\ ret.length = arg.length
                /\ Len(ret.terms) = Len(arg.terms)
                /\ ret.terms[MutPos][MutVar] = opArg[4]
                /\ \A k \in 1..Len(arg.terms) : \A i \in 1..Len(arg.terms[k]) :
                      (k # MutPos \/ i # MutVar) => ret.terms[k][i] = arg.terms[k][i]

\* the drawn exponent 0 made the only exponent of a term zero and the model
\* was rebuilt with other functions than the input had
C11_Witness ==
    /\ After("mutateterms")
    /\ AllZero(inplace.terms[MutPos])
    /\ ret.funcs # arg.funcs
    /\ ret.length = arg.length

\* C13: buildRandIT(nTerms, nvars, expolim) returns nTerms terms, each a vector
\* of nvars exponents in [-expolim-1, expolim] that is not all-zero, each
\* function one of the eight library functions, every coefficient 1 and
\* length = nTerms
C13_BuildRandShape ==
    After("buildRand") => FreshRandom(ret, opArg[1], opArg[2], opArg[3])

\* a model of more than one term with two different functions
C13_Witness ==
    /\ After("buildRand")
    /\ ret.length = MaxBuildTerms
    /\ ret.funcs[1] # ret.funcs[2]
    /\ ret.terms[1][1] = -opArg[3] - 1

\* the sum of the entries of an input X
RECURSIVE EntrySum(_, _)
EntrySum(X, k) == IF k > Len(X) THEN 0 ELSE X[k] + EntrySum(X, k + 1)

\* C14: buildRootIT(nvars) returns nvars terms, term i the unit vector of
\* variable i with function id and coefficient 1, and evaluated before any fit
\* at an input X it returns the sum of the entries of X
C14_RootIsSum ==
    (prog = "root" /\ pc = "done") =>
        /\ ret.length = nvarsOf(Xs)
        /\ Len(ret.terms) = nvarsOf(Xs)
        /\ \A i \in 1..nvarsOf(Xs) :
              /\ ret.terms[i] = [j \in 1..nvarsOf(Xs) |-> IF i = j THEN 1 ELSE 0]
              /\ ret.funcs[i] = "id"
              /\ ret.coeffs[i] = One
        /\ opArg = Num(EntrySum(Xs[1], 1))

\* the root of two variables evaluated at X = [2, 3] gives 5
C14_Witness ==
    /\ prog = "root"
    /\ pc = "done"
    /\ Xs = << <<2, 3>> >>
    /\ opArg = Num(5)

----------------------------------------------------------------------------
(* Properties of the loops of the searches *)

Searching == prog \in {"ITES", "ITLS", "SYMTREE"}

\* the loop of the search has ended; outer is the number of passes it ran
LoopEnded == Searching /\ pc \in {"simplify", "done"}

\* C16: a search runs at most its budget of passes (generations of ITES,
\* iterations of ITLS and SYMTREE) before it returns, none with a budget of 0
C16_WithinBudget == LoopEnded => outer <= par.budget

\* C17: ITES starts the selection of a generation only while the best score is
\* below stopScore, the best of the initial population included
C17_NoGenerationAfterStop ==
    [][(prog = "ITES" /\ pc = "select" /\ inner = 0 /\ parents' # parents)
          => ~Ge(best.score, par.stopScore)]_vars

\* C18: in ITLS the neighborhood is generated from the best at the start of
\* an iteration and stays as it is while it is scanned, also after a neighbor
\* was adopted; the scan sanitizes and fits the neighbors in list order, and
\* the neighbor replaces the best at that moment if and only if its fitted
\* score is strictly greater
C18_ScanOfOneNeighborhood ==
    [][prog = "ITLS" =>
          /\ pc = "neighbors" => neighbors' = NeighborsOf(best, nvarsOf(Xs))
          /\ pc = "scan" =>
                LET neigh  == neighbors[inner + 1]
                    fitted == fitIT(sanitizeIT(neigh), Xs, ys)
                IN  /\ neighbors' = neighbors
                    /\ pc' = "scan" => inner' = inner + 1
                    /\ Gt(fitted.score, best.score) => best' = NeighAfterFit(neigh)
                    /\ ~Gt(fitted.score, best.score) => best' = best]_vars

\* a neighbor was adopted mid-scan and the scan goes on in the neighborhood of
\* the best the iteration started from
C18_Witness ==
    /\ prog = "ITLS"
    /\ pc = "scan"
    /\ inner > 0
    /\ inner < Len(neighbors)
    /\ best = NeighAfterFit(neighbors[inner])
    /\ neighbors # NeighborsOf(best, nvarsOf(Xs))
    /\ neighbors = NeighborsOf(reduceBest(pop), nvarsOf(Xs))

\* C19: in ITLS, once the evaluation of a neighbor leaves the best with a
\* score >= stopScore, no further neighbor is evaluated and no further
\* iteration is started: the search goes to the final simplify
C19_StopsAtStopScore ==
    /\ [][(prog = "ITLS" /\ pc = "scan" /\ Ge(best'.score, par.stopScore))
             => pc' = "simplify"]_vars
    /\ [](prog = "ITLS" /\ pc \in {"scan", "neighbors"} /\ (inner > 0 \/ outer > 1)
             => ~Ge(best.score, par.stopScore))

\* the scan ended at stopScore with neighbors and iterations left
C19_Witness ==
    /\ prog = "ITLS"
    /\ pc = "simplify"
    /\ Ge(best.score, par.stopScore)
    /\ inner + 1 < Len(neighbors)
    /\ outer < Len(Budgets)

----------------------------------------------------------------------------
(* Properties of the tournaments of ITES *)

\* the model IT is a copy of one of the two drawn, whose score is not below
\* the score of the other
CopyOfHigher(IT, drawn) ==
    /\ Len(drawn) = 2
    /\ \E w \in 1..2 :
          /\ IT = copyIT(drawn[w])
          /\ Ge(drawn[w].score, drawn[3 - w].score)

\* the highest score of a list of scored models
HighestScore(list) == reduceBest(list).score

\* C20: in every generation of ITES each parent is a copy of the higher
\* scoring of two members drawn from the population and the pool has
\* selectedSize parents; each member of the next population is a copy of the
\* higher scoring of two mutated parents, the next population has popSize
\* members, and none of its scores exceeds the highest score of the parents
C20_Tournaments ==
    [][prog = "ITES" =>
          /\ pc = "select" =>
                /\ \E i1, i2 \in 1..Len(pop) : neighbors' = <<pop[i1], pop[i2]>>
                /\ Len(parents') = Len(parents) + 1
                /\ CopyOfHigher(parents'[Len(parents')], neighbors')
                /\ pc' = "mutate" <=> Len(parents') = par.selectedSize
          /\ pc = "mutate" => Len(parents') = par.selectedSize
          /\ pc = "offspring" =>
                /\ \E i1, i2 \in 1..Len(parents) : neighbors' = <<parents[i1], parents[i2]>>
                /\ Len(newPop') = Len(newPop) + 1
                /\ CopyOfHigher(newPop'[Len(newPop')], neighbors')
                /\ pc' = "endgen" <=> Len(newPop') = par.popSize
                /\ parents' = parents
          /\ pc = "endgen" =>
                /\ Len(pop') = par.popSize
                /\ \A k \in 1..Len(pop') :
                      Ge(HighestScore(parents), pop'[k].score)]_vars

\* a tournament of the offspring drew two parents of different scores, after
\* the mutation had left the pool with scores the population did not have
C20_Witness ==
    /\ prog = "ITES"
    /\ pc \in {"offspring", "endgen"}
    /\ Len(neighbors) = 2
    /\ Gt(neighbors[1].score, neighbors[2].score)
    /\ newPop[Len(newPop)] = neighbors[1]
    /\ \A k \in 1..Len(pop) : pop[k].score # neighbors[1].score

----------------------------------------------------------------------------
(* Properties of copyIT by reference *)

\* C12: the copy copyIT returns has the terms, funcs, coeffs, length and score
\* of its input and shares no array with it: an assignment to an exponent, a
\* function, a coefficient, the length or the score of one of the two leaves
\* the other as it was
C12_CopyIsIndependent ==
    /\ [](prog = "copy" /\ pc = "copied" =>
             /\ opArg[1] # opArg[2]
             /\ Deref(heap, opArg[2]) = Deref(heap, opArg[1])
             /\ ArraysOf(heap, opArg[1]) \cap ArraysOf(heap, opArg[2]) = {})
    /\ [][prog = "copy" /\ pc = "copied" =>
             /\ Deref(heap', opArg[3 - inner']) = Deref(heap, opArg[3 - inner'])
             /\ Deref(heap', opArg[inner']) # Deref(heap, opArg[inner'])]_vars

\* an exponent of the copy was assigned and the original kept its own
C12_Witness ==
    /\ prog = "copy"
    /\ pc = "assigned"
    /\ op = "exponent"
    /\ inner = 2
    /\ Deref(heap, opArg[2]).terms # Deref(heap, opArg[1]).terms
    /\ Deref(heap, opArg[2]).funcs = Deref(heap, opArg[1]).funcs

----------------------------------------------------------------------------
(* Properties of the models the searches hold *)

RefProgs == {"refITES", "refITLS", "refSYMTREE"}

\* the candidate the next step operates on in place: the parent under
\* mutation in ITES, the neighbor under sanitizeIT and fitIT in ITLS; the
\* other steps operate on models they create themselves
Operated ==
    IF prog = "refITES" /\ pc = "mutate" THEN {parents[inner + 1]}
    ELSE IF prog = "refITLS" /\ pc = "scan" THEN {neighbors[inner + 1]}
    ELSE {}

\* the other models that are held: the population or the leaves, the other
\* parents or the children, the next population, best, the other neighbors
\* of ITLS and greedyBest of SYMTREE
HeldOthers ==
    {pop[k] : k \in 1..Len(pop)}
        \cup {newPop[k] : k \in 1..Len(newPop)}
        \cup (IF best = 0 THEN {} ELSE {best})
        \cup {parents[k] : k \in {j \in 1..Len(parents) :
                                     ~(prog = "refITES" /\ pc = "mutate" /\ j = inner + 1)}}
        \cup (IF prog = "refITLS"
              THEN {neighbors[k] : k \in {j \in 1..Len(neighbors) :
                                             ~(pc = "scan" /\ j = inner + 1)}}
              ELSE {})
        \cup (IF prog = "refSYMTREE" /\ pc \in {"filter", "greedy"}
              THEN {opArg.greedyBest} ELSE {})

\* C15: in ITES, ITLS and SYMTREE no step changes the terms, funcs, coeffs,
\* length or score of a held model other than the candidate it operates on,
\* and that candidate is an object of its own that shares no array with them
C15_OthersUnchanged ==
    /\ [][(prog \in RefProgs) =>
              (\A a \in HeldOthers : Deref(heap', a) = Deref(heap, a))]_vars
    /\ [](prog \in RefProgs =>
              \A o \in Operated : \A a \in HeldOthers :
                  /\ o # a
                  /\ ArraysOf(heap, o) \cap ArraysOf(heap, a) = {})

\* the parents of a generation of ITES were mutated and one of them differs in
\* its terms or functions from every member of the population it was drawn from
C15_Witness ==
    /\ prog = "refITES"
    /\ pc = "offspring"
    /\ inner = 0
    /\ \E k \in 1..Len(parents) : \A j \in 1..Len(pop) :
           \/ Deref(heap, parents[k]).terms # Deref(heap, pop[j]).terms
           \/ Deref(heap, parents[k]).funcs # Deref(heap, pop[j]).funcs

----------------------------------------------------------------------------
(* toExpand of SYMTREE on its own: the candidate terms of one leaf at        *)
(* iteration i. arg is the leaf, par holds i, minI and minT, and neighbors   *)
(* takes the list.                                                           *)

\* leaves have 1..MaxExpandTerms terms over 1..MaxExpandVars variables, with
\* exponents in -1..1; i, minI and minT range over 0..MaxExpandIter
MaxExpandTerms == 2
MaxExpandVars == 2
MaxExpandIter == 2

ExpandLeaves ==
    UNION {UNION {{[terms  |-> ts, funcs |-> fs, coeffs |-> [k \in 1..n |-> One],
                    length |-> n, score |-> Zero] :
                      ts \in [1..n -> {t \in [1..nvars -> -1..1] : ~AllZero(t)}],
                      fs \in [1..n -> {"id", "sin"}]} :
                  n \in 1..MaxExpandTerms} :
           nvars \in 1..MaxExpandVars}

InitExpand ==
    /\ prog = "expand"
    /\ pc = "call"
    /\ arg \in ExpandLeaves
    /\ \E i, minI, minT \in 0..MaxExpandIter :
          par = [i |-> i, minI |-> minI, minT |-> minT]
    /\ Xs = <<>>
    /\ ys = <<>>
    /\ ret = NoModel
    /\ op = "none"
    /\ steps = 0
    /\ opArg = <<>>
    /\ inplace = NoModel
    /\ pop = <<>>
    /\ parents = <<>>
    /\ newPop = <<>>
    /\ best = NoModel
    /\ outer = 0
    /\ inner = 0
    /\ neighbors = <<>>
    /\ heap = <<>>

\* the two for loops over the terms of the leaf
Expand ==
    /\ prog = "expand"
    /\ pc = "call"
    /\ neighbors' = toExpandOf(arg, par.i, par.minI, par.minT)
    /\ pc' = "done"
    /\ UNCHANGED <<prog, Xs, ys, opVars, ret, par, pop, parents, newPop, best, outer, inner,
                   heap>>

NextExpand == Expand

SpecExpand == InitExpand /\ [][NextExpand]_vars

----------------------------------------------------------------------------
(* Properties of toExpand *)

\* the pairs j <= k of terms of a leaf (1-based)
TermPairs(leaf) == {jk \in (1..leaf.length) \X (1..leaf.length) : jk[1] <= jk[2]}

\* how many times a candidate occurs in a list
Occurrences(list, cand) == Cardinality({p \in 1..Len(list) : list[p] = cand})

\* how many pairs j <= k have cand as their sum with id, as their difference
\* with id, and how many swaps of the function of one term give cand
AsSum(leaf, cand) ==
    Cardinality({jk \in TermPairs(leaf) :
        cand = [term |-> [v \in DOMAIN leaf.terms[jk[1]] |->
                             leaf.terms[jk[1]][v] + leaf.terms[jk[2]][v]],
                func |-> "id"]})

AsDifference(leaf, cand) ==
    Cardinality({jk \in TermPairs(leaf) :
        cand = [term |-> [v \in DOMAIN leaf.terms[jk[1]] |->
                             leaf.terms[jk[1]][v] - leaf.terms[jk[2]][v]],
                func |-> "id"]})

AsSwap(leaf, cand) ==
    Cardinality({jf \in (1..leaf.length) \X FunSet :
        /\ jf[2] # leaf.funcs[jf[1]]
        /\ cand = [term |-> leaf.terms[jf[1]], func |-> jf[2]]})

\* C21: the candidate list of a leaf at iteration i holds the sum with id of
\* every pair j <= k of its terms, the difference with id of every such pair
\* exactly when i >= minI, and every term with each other function exactly
\* when i >= minT, and nothing else
C21_CandidateKinds ==
    (prog = "expand" /\ pc = "done") =>
        /\ \A cand \in Range(neighbors) :
               Occurrences(neighbors, cand) =
                   AsSum(arg, cand)
                   + (IF par.i >= par.minI THEN AsDifference(arg, cand) ELSE 0)
                   + (IF par.i >= par.minT THEN AsSwap(arg, cand) ELSE 0)
        /\ Len(neighbors) =
               Cardinality(TermPairs(arg)) * (IF par.i >= par.minI THEN 2 ELSE 1)
               + (IF par.i >= par.minT THEN arg.length * (Len(funsKeys) - 1) ELSE 0)

\* at iteration i = minI < minT a leaf of two terms gives three sums and
\* three differences and no swap
C21_Witness ==
    /\ prog = "expand"
    /\ pc = "done"
    /\ arg.length = 2
    /\ par.i = 1
    /\ par.minI = 1
    /\ par.minT = 2
    /\ Len(neighbors) = 6
    /\ \E p \in 1..Len(neighbors) : \E v \in DOMAIN neighbors[p].term :
           neighbors[p].term[v] < -1

----------------------------------------------------------------------------
(* Properties of the expansion of a leaf in SYMTREE *)

\* a round of the while loop of the leaf under expansion is taken
GreedyRound == prog = "SYMTREE" /\ pc = "greedy" /\ neighbors # <<>>

\* C22: every round of the while loop of a leaf removes at least one term from
\* toExpand and pushes one child, so the children of a leaf are at most the
\* terms the first filter kept: toExpand, which is finite, shrinks in every
\* round, and the loop ends when it is empty
C22_GreedyLoopEnds ==
    /\ [][GreedyRound =>
              /\ Len(neighbors') < Len(neighbors)
              /\ Len(parents') = Len(parents) + 1]_vars
    /\ [](prog = "SYMTREE" /\ pc = "greedy" =>
              Len(parents) + Len(neighbors)
                  <= Len(Improving(Leaf, toExpandOf(Leaf, Iteration, par.minI, par.minT))))

\* a leaf whose loop ran two rounds: two children, and toExpand is empty
C22_Witness ==
    /\ prog = "SYMTREE"
    /\ pc = "greedy"
    /\ Len(parents) = 2
    /\ neighbors = <<>>

\* the callback of leaves.map returns for the leaf under expansion
LeafReturns == prog = "SYMTREE" /\ pc = "greedy" /\ neighbors = <<>>

\* C23: every leaf gives at least one node, a leaf no term improves gives
\* itself as its only node, and the leaves are never none nor fewer than in
\* the iteration before
C23_LeavesNeverShrink ==
    /\ [][LeafReturns =>
              /\ Len(newPop') >= Len(newPop) + 1
              /\ (Improving(Leaf, toExpandOf(Leaf, Iteration, par.minI, par.minT)) = <<>>
                     => newPop' = Append(newPop, Leaf))]_vars
    /\ [][prog = "SYMTREE" => Len(pop') >= Len(pop)]_vars
    /\ [](prog = "SYMTREE" => Len(pop) >= 1)

\* an iteration over two or more leaves has ended and one of them was
\* carried over
C23_Witness ==
    /\ prog = "SYMTREE"
    /\ pc = "enditer"
    /\ Len(pop) >= 2
    /\ \E k \in 1..Len(pop) : \E j \in 1..Len(newPop) : newPop[j] = pop[k]

----------------------------------------------------------------------------
(* Properties of the pruning of simplifyIT *)

\* C24: simplifyIT calls fitIT at most as many times as its input has terms,
\* and in the model it returns either every coefficient is above the
\* threshold in absolute value, or every one is at or below it
C24_SimplifyEnds ==
    After("simplify") =>
        /\ simplifyRefits(arg, Xs, ys, nvarsOf(Xs), opArg) <= arg.length
        /\ \/ \A k \in 1..Len(ret.coeffs) : Gt(Abs(ret.coeffs[k]), opArg)
           \/ \A k \in 1..Len(ret.coeffs) : Le(Abs(ret.coeffs[k]), opArg)

----------------------------------------------------------------------------
(* Properties of the models the searches hold between their steps *)

\* the population or leaves, the parents or children, the next population,
\* best and the returned model of a search
SearchHeld ==
    IF prog \in {"ITES", "ITLS", "SYMTREE"}
    THEN ({best, ret} \cup Range(pop) \cup Range(newPop) \cup Range(parents)) \ {NoModel}
    ELSE {}

\* C25: no model a search holds between its steps, and no model it returns,
\* is empty: the best of ITLS, which is the neighbor object given to
\* sanitizeIT, has a term also when sanitizeIT fell back to its backup
C25_NoEmptyModel ==
    \A IT \in SearchHeld : IT.length >= 1 /\ Len(IT.terms) >= 1

----------------------------------------------------------------------------
(* Further properties of sanitizeIT *)

\* the positions of a model that hold the (exponent vector, function) pair
\* found at position k of another
PositionsOf(IT, other, k) ==
    {j \in 1..Len(IT.terms) :
        IT.terms[j] = other.terms[k] /\ IT.funcs[j] = other.funcs[k]}

\* C26: every pair of the input whose exponent vector is not all-zero occurs
\* exactly once in the model sanitizeIT returns
C26_KeepsEveryPair ==
    SanDone =>
        \A k \in 1..Len(arg.terms) :
            ~AllZero(arg.terms[k]) => Cardinality(PositionsOf(ret, arg, k)) = 1

\* C27: sanitize is idempotent: sanitizing the model a sanitize returned gives a
\* model with the same terms, functions, coefficients and length.
C27_SanitizeIdempotent ==
    (prog = "sanitize" /\ pc = "again") =>
        /\ ret.terms = arg.terms
        /\ ret.funcs = arg.funcs
        /\ ret.coeffs = arg.coeffs
        /\ ret.length = arg.length

\* the second call is made on a model the first call returned from its backup,
\* a repeated pair still in it
C27_Witness ==
    /\ prog = "sanitize"
    /\ pc = "again"
    /\ steps = 2
    /\ arg.length = 3
    /\ ~NoDuplicate(arg)
    /\ NoZeroTerm(arg)

----------------------------------------------------------------------------
(* Properties of the scores of the models the searches hold *)

\* the population or leaves, the mutated parents or children, the next
\* population or nodes and the current best of a search
ScoredHeld ==
    IF prog \in {"ITES", "ITLS", "SYMTREE"}
    THEN ({best} \cup Range(pop) \cup Range(newPop) \cup Range(parents)) \ {NoModel}
    ELSE {}

\* C28: every model a search holds between its steps carries a defined score,
\* and the score is the one fitIT computes for the terms and funcs it has now
C28_ScoreIsCurrent ==
    \A IT \in ScoredHeld :
        /\ IT.score # undefined
        /\ IT.score = fitIT(IT, Xs, ys).score

----------------------------------------------------------------------------
(* Properties of the leaves of SYMTREE *)

\* the candidates of the leaf under expansion whose exponent vector is all-zero
ZeroCandidates ==
    {c \in Range(toExpandOf(Leaf, Iteration, par.minI, par.minT)) : AllZero(c.term)}

\* C29: no leaf, node or child of SYMTREE has an all-zero exponent vector: a
\* candidate with an all-zero exponent vector gives an attempt that scores no
\* higher than the leaf, so it does not pass the first filter of toExpand
C29_NoZeroTermInLeaf ==
    prog = "SYMTREE" =>
        /\ \A IT \in Range(pop) \cup Range(newPop) \cup Range(parents) : NoZeroTerm(IT)
        /\ ret # NoModel => NoZeroTerm(ret)
        /\ pc = "greedy" =>
              /\ \A c \in Range(neighbors) : ~AllZero(c.term)
              /\ \A c \in ZeroCandidates : ~Gt(Attempt(Leaf, c).score, Leaf.score)

\* a leaf of two terms had candidates with an all-zero exponent vector and a
\* child was built from the others
C29_Witness ==
    /\ prog = "SYMTREE"
    /\ pc = "greedy"
    /\ Leaf.length >= 2
    /\ ZeroCandidates # {}
    /\ Len(parents) >= 1

\* every term of the model has the function id
OnlyId(IT) == \A k \in 1..Len(IT.funcs) : IT.funcs[k] = "id"

\* no exponent of the model is negative
NoNegativeExponent(IT) ==
    \A k \in 1..Len(IT.terms) : \A v \in 1..Len(IT.terms[k]) : IT.terms[k][v] >= 0

\* C30: when iteration i starts with i <= minT every term of every leaf has
\* the function id, and when it starts with i <= minI no exponent of a leaf
\* is negative
C30_OnlyEnabledKinds ==
    (prog = "SYMTREE" /\ pc = "expand") =>
        /\ Iteration <= par.minT => \A leaf \in Range(pop) : OnlyId(leaf)
        /\ Iteration <= par.minI => \A leaf \in Range(pop) : NoNegativeExponent(leaf)

\* the second iteration starts with i = minI = minT on a leaf that absorbed a
\* sum in the first
C30_Witness ==
    /\ prog = "SYMTREE"
    /\ pc = "expand"
    /\ inner = 0
    /\ Iteration = 1
    /\ par.minI = 1
    /\ par.minT = 1
    /\ \E k \in 1..Len(pop) : pop[k].length > nvarsOf(Xs)

====
